---- MODULE Spec2Model ----
(***************************************************************************)
(* The signup / identity-linking workflow of flashcastr.api:               *)
(*   resolvers.Query.pollSignupStatus        (src/src/index.ts)            *)
(*   SignupOperations.finalizeSignupProcess  (utils/tasks/signup.ts)       *)
(*   PostgresFlashcastrUsers                 (utils/database/users)        *)
(*   PostgresFlashcastrFlashes               (utils/database/flashcastr)   *)
(*   resolvers.Mutation.setUserAutoCast / deleteUser                       *)
(*   resolvers.Mutation.initiateSignup, resolvers.Query.getLeaderboard     *)
(* Every request runs in a slot; a slot advances one awaited call at a     *)
(* time, so the store statements of different requests interleave exactly  *)
(* where the code awaits.                                                  *)
(***************************************************************************)
EXTENDS Integers, Sequences, FiniteSets, TLC

VARIABLES
  users,     \* table flashcastr_users: fid -> row
  flashes,   \* table flashcastr_flashes: flash_id -> row (flash_id is the conflict target)
  env,       \* process.env: SIGNER_ENCRYPTION_KEY, API_KEY
  invaders,  \* how the activity service answers (arbitrary small pages, or a catalog)
  active,    \* the request slots in use
  req,       \* per slot: the request being served, its position and locals
  world,     \* what this run draws from: the clients' accounts, signers and player
             \* names, the random IVs, whether a statement may fail, whether
             \* the last successful finalize is remembered, and whether a
             \* finalize keeps the tables as it found them
  prev,      \* the last finalize that succeeded, while nothing else wrote since
  leaderboardCache,  \* the module-level cache of getLeaderboard
  now,       \* Date.now(), in milliseconds since the process started
  trendingCitiesCache,  \* the module-level cache of getTrendingCities
  rawFlashes \* table flashes, filled by the game's crawler: city and timestamp,
             \* in the order the rows arrived

vars == <<users, flashes, env, invaders, active, req, world, prev, leaderboardCache, now,
          trendingCitiesCache, rawFlashes>>

(***************************************************************************)
(* Program constants                                                       *)
(***************************************************************************)
FLASH_FETCH_LIMIT == 20
MAX_FLASHES_TO_INSERT == 7000
LEADERBOARD_CACHE_TTL == 3600000
TRENDING_CACHE_TTL == 86400000

(***************************************************************************)
(* Bounds of the model                                                     *)
(***************************************************************************)
MaxPages == 2      \* pages an arbitrary activity service serves before hasNext = false
MaxFlashId == 1    \* flash ids an arbitrary activity service returns: 1..MaxFlashId
MaxTicks == 2      \* half hours, or half days, the clock advances
MaxRawFlashes == 2 \* rows the crawler adds to table flashes
MaxCalls == 360    \* getFlashes calls one finalize is followed through

(***************************************************************************)
(* Value domains                                                           *)
(***************************************************************************)
NULL == "NULL"                      \* SQL NULL / JS undefined in a text position
NoFid == 0                          \* lookupSigner answered without a fid
FlashIds == 1..MaxFlashId
AllSlots == {1, 2}
IVs == {1, 2}                       \* outcomes of crypto.randomBytes(IV_LENGTH)
\* text that the code inspects character by character is a sequence of characters
NameArgs == {<< >>, <<"a">>, <<"b", ".">>}
FcName == <<"f", "c">>              \* a Farcaster username

S_approved == <<"a", "p", "p", "r", "o", "v", "e", "d">>
S_pending_approval ==
  <<"p", "e", "n", "d", "i", "n", "g", "_", "a", "p", "p", "r", "o", "v", "a", "l">>
S_revoked == <<"r", "e", "v", "o", "k", "e", "d">>
S_expired == <<"e", "x", "p", "i", "r", "e", "d">>
S_mixed == <<"N", "e", "w", "_", "1">>
SignerStatuses == {S_approved, S_pending_approval, S_revoked, S_expired, S_mixed}

(***************************************************************************)
(* String.prototype.toUpperCase and the regex escape                       *)
(***************************************************************************)
LowerCase == <<"a", "b", "c", "d", "e", "f", "g", "h", "i", "j", "k", "l", "m",
               "n", "o", "p", "q", "r", "s", "t", "u", "v", "w", "x", "y", "z">>
UpperCase == <<"A", "B", "C", "D", "E", "F", "G", "H", "I", "J", "K", "L", "M",
               "N", "O", "P", "Q", "R", "S", "T", "U", "V", "W", "X", "Y", "Z">>

UpperChar(c) ==
  IF \E i \in DOMAIN LowerCase : LowerCase[i] = c
    THEN UpperCase[CHOOSE i \in DOMAIN LowerCase : LowerCase[i] = c]
    ELSE c

\* variant: the status is interpolated without .toUpperCase()
toUpperCaseOmitted(s) == s

toUpperCase(s) == [i \in DOMAIN s |-> UpperChar(s[i])]

LowerChar(c) ==
  IF \E i \in DOMAIN UpperCase : UpperCase[i] = c
    THEN LowerCase[CHOOSE i \in DOMAIN UpperCase : UpperCase[i] = c]
    ELSE c

toLowerCase(s) == [i \in DOMAIN s |-> LowerChar(s[i])]

\* String.prototype.trim
WhiteSpace == {" ", "\t", "\n"}

RECURSIVE trimStart(_)
trimStart(s) ==
  IF s # << >> /\ Head(s) \in WhiteSpace THEN trimStart(Tail(s)) ELSE s

RECURSIVE trimEnd(_)
trimEnd(s) ==
  IF s # << >> /\ s[Len(s)] \in WhiteSpace THEN trimEnd(SubSeq(s, 1, Len(s) - 1)) ELSE s

\* variant: the name is tested without .trim()
trimOmitted(s) == s

trim(s) == trimEnd(trimStart(s))

RegexMeta == {".", "*", "+", "?", "^", "$", "{", "}", "(", ")", "|", "[", "]", "\\"}

RECURSIVE escapeRegex(_)
escapeRegex(str) ==
  IF str = << >> THEN << >>
  ELSE (IF Head(str) \in RegexMeta THEN <<"\\", Head(str)>> ELSE <<Head(str)>>)
       \o escapeRegex(Tail(str))

(***************************************************************************)
(* encrypt / decrypt: AES-256-GCM under a fresh random IV.  The blob is    *)
(* iv:authTag:ciphertext; ciphertext and tag are terms over (key, iv,      *)
(* text) that only the same key opens.                                     *)
(***************************************************************************)
encrypt(text, key, iv) ==
  [iv |-> iv,
   authTag |-> <<"tag", key, iv, text>>,
   encrypted |-> <<"aes-256-gcm", key, iv, text>>]

decrypt(encryptedData, key) ==
  IF /\ encryptedData.encrypted[2] = key
     /\ encryptedData.encrypted[3] = encryptedData.iv
     /\ encryptedData.authTag = <<"tag", key, encryptedData.iv, encryptedData.encrypted[4]>>
    THEN encryptedData.encrypted[4]
    ELSE "DECRYPT_ERROR"

(***************************************************************************)
(* PostgresFlashcastrUsers                                                 *)
(***************************************************************************)
\* SELECT * FROM flashcastr_users WHERE fid = $1; result[0]
HasUser(tbl, fid) == fid \in DOMAIN tbl

\* the statement with ON CONFLICT (fid) DO NOTHING: an existing row is kept and
\* no row is returned
insertDoNothing(tbl, user) ==
  IF user.fid \in DOMAIN tbl
    THEN [tbl |-> tbl, rows |-> << >>]
    ELSE [tbl |-> [f \in DOMAIN tbl \cup {user.fid} |->
                     IF f # user.fid THEN tbl[f]
                     ELSE [fid |-> user.fid, username |-> user.username,
                           signer_uuid |-> user.signer_uuid,
                           auto_cast |-> user.auto_cast, deleted |-> FALSE]],
          rows |-> <<user.fid>>]

\* variant: ON CONFLICT refreshes the username and leaves the stored signer
insertKeepsSigner(tbl, user) ==
  [tbl |-> [f \in DOMAIN tbl \cup {user.fid} |->
              IF f # user.fid THEN tbl[f]
              ELSE IF f \in DOMAIN tbl
                THEN [tbl[f] EXCEPT !.deleted = FALSE,
                                    !.username = user.username,
                                    !.auto_cast = user.auto_cast]
                ELSE [fid |-> user.fid, username |-> user.username,
                      signer_uuid |-> user.signer_uuid, auto_cast |-> user.auto_cast,
                      deleted |-> FALSE]],
   rows |-> <<user.fid>>]

\* INSERT ... VALUES ($1,$2,$3,$4,false) ON CONFLICT (fid) DO UPDATE SET ...
\* RETURNING fid: the table afterwards and the rows handed back
insert(tbl, user) ==
  [tbl |-> [f \in DOMAIN tbl \cup {user.fid} |->
              IF f # user.fid THEN tbl[f]
              ELSE IF f \in DOMAIN tbl
                THEN [tbl[f] EXCEPT !.deleted = FALSE,
                                    !.username = user.username,
                                    !.signer_uuid = user.signer_uuid,
                                    !.auto_cast = user.auto_cast]
                ELSE [fid |-> user.fid, username |-> user.username,
                      signer_uuid |-> user.signer_uuid, auto_cast |-> user.auto_cast,
                      deleted |-> FALSE]],
   rows |-> <<user.fid>>]

\* UPDATE flashcastr_users SET auto_cast = $1 WHERE fid = $2 RETURNING fid
updateAutocast(tbl, fid, auto_cast) ==
  [f \in DOMAIN tbl |-> IF f = fid THEN [tbl[f] EXCEPT !.auto_cast = auto_cast] ELSE tbl[f]]

\* the rows `RETURNING fid` hands back
updateAutocastRows(tbl, fid) == IF fid \in DOMAIN tbl THEN <<fid>> ELSE << >>

\* variant: DELETE FROM flashcastr_users WHERE fid = $1
deleteByFidHard(tbl, fid) == [f \in DOMAIN tbl \ {fid} |-> tbl[f]]

\* UPDATE flashcastr_users SET deleted = true WHERE fid = $1
deleteByFid(tbl, fid) ==
  [f \in DOMAIN tbl |-> IF f = fid THEN [tbl[f] EXCEPT !.deleted = TRUE] ELSE tbl[f]]

\* what Postgres.query may hand back for that statement, which has no RETURNING
\* clause: no rows, or the rows it changed
deleteByFidRows(tbl, fid) ==
  {<< >>} \cup (IF fid \in DOMAIN tbl THEN {<<fid>>} ELSE {})

\* resolvers.Query.users: prisma findMany where deleted = false and fid = $fid
usersQuery(tbl, fid) ==
  {[fid |-> tbl[f].fid, username |-> tbl[f].username, auto_cast |-> tbl[f].auto_cast] :
     f \in {g \in DOMAIN tbl : g = fid /\ ~tbl[g].deleted}}

(***************************************************************************)
(* PostgresFlashcastrFlashes                                               *)
(***************************************************************************)
\* UPDATE flashcastr_flashes SET deleted = true WHERE user_fid = $1 RETURNING *
deleteManyByFid(tbl, fid) ==
  [id \in DOMAIN tbl |->
     IF tbl[id].user_fid = fid THEN [tbl[id] EXCEPT !.deleted = TRUE] ELSE tbl[id]]

\* variant: ON CONFLICT (flash_id) DO NOTHING
UpsertFlashDoNothing(tbl, f) ==
  IF f.flash_id \in DOMAIN tbl
    THEN tbl[f.flash_id]
    ELSE [flash_id |-> f.flash_id, user_fid |-> f.user_fid,
          user_username |-> f.user_username, user_pfp_url |-> f.user_pfp_url,
          cast_hash |-> f.cast_hash, deleted |-> FALSE]

\* one VALUES tuple against the table: inserted with deleted = false, or
\* ON CONFLICT (flash_id) DO UPDATE SET deleted, user_fid, user_username,
\* user_pfp_url, cast_hash
\* variant: ON CONFLICT refreshes the columns without clearing deleted
UpsertFlashKeepsDeleted(tbl, f) ==
  IF f.flash_id \in DOMAIN tbl
    THEN [tbl[f.flash_id] EXCEPT !.user_fid = f.user_fid,
                                 !.user_username = f.user_username,
                                 !.user_pfp_url = f.user_pfp_url,
                                 !.cast_hash = f.cast_hash]
    ELSE [flash_id |-> f.flash_id, user_fid |-> f.user_fid,
          user_username |-> f.user_username, user_pfp_url |-> f.user_pfp_url,
          cast_hash |-> f.cast_hash, deleted |-> FALSE]

UpsertFlash(tbl, f) ==
  IF f.flash_id \in DOMAIN tbl
    THEN [tbl[f.flash_id] EXCEPT !.deleted = FALSE,
                                 !.user_fid = f.user_fid,
                                 !.user_username = f.user_username,
                                 !.user_pfp_url = f.user_pfp_url,
                                 !.cast_hash = f.cast_hash]
    ELSE [flash_id |-> f.flash_id, user_fid |-> f.user_fid,
          user_username |-> f.user_username, user_pfp_url |-> f.user_pfp_url,
          cast_hash |-> f.cast_hash, deleted |-> FALSE]

\* the position of the VALUES tuple for a flash_id (tried at index flash_id first)
DocIndex(docs, id) ==
  IF id \in DOMAIN docs /\ docs[id].flash_id = id THEN id
  ELSE CHOOSE i \in DOMAIN docs : docs[i].flash_id = id

insertMany(tbl, docs) ==
  IF Len(docs) = 0 THEN tbl
  ELSE LET ids == {docs[i].flash_id : i \in DOMAIN docs}
       IN [id \in DOMAIN tbl \cup ids |->
             IF id \in ids THEN UpsertFlash(tbl, docs[DocIndex(docs, id)]) ELSE tbl[id]]

(***************************************************************************)
(* Thrown values, responses, request slots                                 *)
(***************************************************************************)
\* a message: a literal text with the interpolated fid, argument and cause
Msg(text) == [text |-> text, fid |-> 0, arg |-> << >>, cause |-> << >>]
MsgFid(text, fid) == [text |-> text, fid |-> fid, arg |-> << >>, cause |-> << >>]
MsgArg(text, arg) == [text |-> text, fid |-> 0, arg |-> arg, cause |-> << >>]
MsgCause(text, fid, cause) == [text |-> text, fid |-> fid, arg |-> << >>, cause |-> <<cause>>]

\* `new Error(message)`
Error(message) == [isError |-> TRUE, message |-> message]
\* a thrown value that is no Error instance; message is String(value)
NonError(text) == [isError |-> FALSE, message |-> text]

UpstreamErrors == {Error(Msg("upstream unavailable")), NonError(Msg("boom"))}
DbError == Error(Msg("connection terminated"))

NoError == Error(Msg(""))
\* what lookupSigner answered to this request, kept beside the locals
NoLookup == [kind |-> "none", status |-> << >>, fid |-> 0, error |-> NoError]
NullUser == [null |-> TRUE]
NoResp == [kind |-> "none"]
Status(lit, suf) == [lit |-> lit, suf |-> suf]

\* a PollSignupStatusResponse
Returned(status, fid, user, message) ==
  [kind |-> "return", status |-> status, fid |-> fid, user |-> user, message |-> message]

\* a GraphQLError (or any error) that leaves the resolver
Thrown(code, message) ==
  [kind |-> "throw", code |-> code, status |-> Status(code, << >>), fid |-> NoFid,
   user |-> NullUser, message |-> message]

\* a DeleteUserResponse
Deleted(success, message) == [kind |-> "return", success |-> success, message |-> message]

\* the soft-delete flags a finalize found when it began, kept beside the locals
NoStore == [users |-> << >>, flashes |-> << >>]
NoneDeleted == [user |-> FALSE, flashes |-> {}, store |-> NoStore]

Idle ==
  [op |-> "idle", pc |-> "idle", signer_uuid |-> "", username |-> << >>,
   fid |-> NoFid, auto_cast |-> FALSE, lookup |-> NoLookup, failure |-> NoError,
   profile |-> "none", pfpUrl |-> "", farcasterUsername |-> << >>,
   playerFlashes |-> << >>, offset |-> 0, calls |-> << >>, fetched |-> "none",
   finalizeCalls |-> 0, outcome |-> "none", dbFailed |-> FALSE, resp |-> NoResp,
   before |-> NoneDeleted, keyCalls |-> 0, apiKey |-> NULL,
   limit |-> 0, validatedLimit |-> 0, startedAt |-> 0, rows |-> << >>,
   excludeParis |-> TRUE, hours |-> 6]

NoPrev == [set |-> FALSE]
NoCache == [set |-> FALSE]

(***************************************************************************)
(* verifyApiKey                                                            *)
(***************************************************************************)
ApiKeyHeaders == {NULL, "secret", "wrong"}

\* variant: with no API_KEY configured every request passes
verifyApiKeyOpen(apiKey, validApiKey) == validApiKey = NULL \/ apiKey = validApiKey

\* TRUE when the request passes; the code throws UNAUTHORIZED otherwise
verifyApiKey(apiKey, validApiKey) == ~(apiKey = NULL \/ apiKey = "" \/ apiKey # validApiKey)

(***************************************************************************)
(* The external services' answers                                          *)
(***************************************************************************)
\* neynarClient.lookupSigner: throws, or a signer with a status and maybe a fid
LookupAnswers ==
  {[throw |-> TRUE, error |-> e, status |-> << >>, fid |-> NoFid] : e \in UpstreamErrors}
  \cup {[throw |-> FALSE, error |-> NoError, status |-> S_approved, fid |-> f] :
          f \in world.fids \cup {NoFid}}
  \cup {[throw |-> FALSE, error |-> NoError, status |-> st, fid |-> NoFid] :
          st \in SignerStatuses \ {S_approved}}

\* neynarClient.fetchBulkUsers({fids: [fid]}): throws, no user, or a user whose
\* pfp_url and username may be absent
ProfileAnswers ==
  {[kind |-> "throw", error |-> Error(Msg("upstream unavailable")),
    pfp_url |-> NULL, hasUsername |-> FALSE, username |-> << >>],
   [kind |-> "nouser", error |-> NoError,
    pfp_url |-> NULL, hasUsername |-> FALSE, username |-> << >>],
   [kind |-> "user", error |-> NoError,
    pfp_url |-> NULL, hasUsername |-> FALSE, username |-> << >>],
   [kind |-> "user", error |-> NoError,
    pfp_url |-> "pfp", hasUsername |-> TRUE, username |-> FcName]}

RECURSIVE SortedSeq(_)
SortedSeq(S) ==
  IF S = {} THEN << >>
  ELSE LET m == CHOOSE x \in S : \A y \in S : x <= y
       IN <<m>> \o SortedSeq(S \ {m})

Range(seq) == {seq[i] : i \in DOMAIN seq}
Min(a, b) == IF a < b THEN a ELSE b

\* the flash ids of a player, when every player has flashes of their own
PlayerBase(username) == IF username = <<"a">> THEN 0 ELSE 100

\* FlashesApi.getFlashes(offset, limit, player): a page {items, hasNext}, or a
\* throw.  An arbitrary service returns any items not returned before and stops
\* within MaxPages pages; a catalog service pages through flash ids 1..size;
\* a players service pages through size flashes of the player asked for;
\* a breaks service throws once size flashes are served; an endless service
\* has a page for every offset and answers hasNext = true every time.
\* A flash is modelled by its flash_id, the one field finalize reads.
FlashAnswers(r) ==
  IF invaders.mode = "catalog"
    THEN {[throw |-> FALSE,
           items |-> [i \in 1..Min(FLASH_FETCH_LIMIT, invaders.size - r.offset) |-> r.offset + i],
           hasNext |-> r.offset + FLASH_FETCH_LIMIT < invaders.size]}
  ELSE IF invaders.mode = "breaks"
    THEN {IF r.offset < invaders.size
            THEN [throw |-> FALSE,
                  items |-> [i \in 1..FLASH_FETCH_LIMIT |-> r.offset + i],
                  hasNext |-> TRUE]
            ELSE [throw |-> TRUE, items |-> << >>, hasNext |-> FALSE]}
  ELSE IF invaders.mode = "endless"
    THEN {[throw |-> FALSE,
           items |-> [i \in 1..FLASH_FETCH_LIMIT |-> r.offset + i],
           hasNext |-> TRUE]}
  ELSE IF invaders.mode = "players"
    THEN {[throw |-> FALSE,
           items |-> [i \in 1..Min(FLASH_FETCH_LIMIT, invaders.size - r.offset) |->
                        PlayerBase(r.username) + r.offset + i],
           hasNext |-> r.offset + FLASH_FETCH_LIMIT < invaders.size]}
    ELSE {[throw |-> TRUE, items |-> << >>, hasNext |-> FALSE]}
         \cup {[throw |-> FALSE, items |-> SortedSeq(S), hasNext |-> h] :
                 S \in SUBSET (FlashIds \ Range(r.playerFlashes)),
                 h \in IF Len(r.calls) + 1 < MaxPages THEN BOOLEAN ELSE {FALSE}}

(***************************************************************************)
(* resolvers.Query.pollSignupStatus                                        *)
(***************************************************************************)
\* variant: a pending signer is finalized as well
ShouldFinalizeUnlessRevoked(neynarSigner) ==
  neynarSigner.status \in {S_approved, S_pending_approval}

\* variant: an approved signer is finalized whether or not it has a fid
ShouldFinalizeWithoutFid(neynarSigner) == neynarSigner.status = S_approved

\* if (neynarSigner.status === "approved" && neynarSigner.fid)
ShouldFinalize(neynarSigner) ==
  neynarSigner.status = S_approved /\ neynarSigner.fid # NoFid

\* the branches that answer without finalizing
StatusResponse(neynarSigner) ==
  IF neynarSigner.status = S_pending_approval
    THEN Returned(Status("PENDING_APPROVAL", << >>), NoFid, NullUser,
                  Msg("Signer approval is pending."))
  ELSE IF neynarSigner.status = S_revoked
    THEN Returned(Status("REVOKED", << >>), NoFid, NullUser,
                  Msg("Signer request was revoked."))
  ELSE Returned(Status("NEYNAR_STATUS_", toUpperCase(neynarSigner.status)), NoFid, NullUser,
                MsgArg("Signer status from Neynar: ", neynarSigner.status))

\* variant: the outer catch rethrows as a GraphQLError
LookupFailedRethrown(error) == Thrown("INTERNAL_SERVER_ERROR", error.message)

\* variant: the outer catch always answers with its default message
LookupFailedGeneric(error) ==
  Returned(Status("ERROR_NEYNAR_LOOKUP", << >>), NoFid, NullUser,
           Msg("Failed to lookup signer on Neynar."))

\* the outer catch
LookupFailed(error) ==
  Returned(Status("ERROR_NEYNAR_LOOKUP", << >>), NoFid, NullUser,
           IF error.isError THEN error.message
           ELSE Msg("Failed to lookup signer on Neynar."))

\* variant: a failed finalize is answered with the default message only
finalizeAndRespondGeneric(fid, result) ==
  IF result.ok
    THEN Returned(Status("APPROVED_FINALIZED", << >>), result.user.fid,
                  [fid |-> result.user.fid, username |-> result.user.username,
                   auto_cast |-> result.user.auto_cast],
                  Msg("User signup finalized successfully."))
    ELSE Returned(Status("ERROR_FINALIZATION", << >>), fid, NullUser,
                  Msg("Failed to finalize user signup in DB."))

\* finalizeAndRespond: the try/catch around finalizeSignupProcess
finalizeAndRespond(fid, result) ==
  IF result.ok
    THEN Returned(Status("APPROVED_FINALIZED", << >>), result.user.fid,
                  [fid |-> result.user.fid, username |-> result.user.username,
                   auto_cast |-> result.user.auto_cast],
                  Msg("User signup finalized successfully."))
    ELSE Returned(Status("ERROR_FINALIZATION", << >>), fid, NullUser,
                  IF result.error.isError THEN result.error.message
                  ELSE Msg("Failed to finalize user signup in DB."))

\* variant: the error is logged and finalize goes on to store the flashes
FinalizeThrowsSwallowed(r, message) == [r EXCEPT !.pc = "insertMany"]

\* finalizeSignupProcess throws `new Error(message)` / returns the row read back
FinalizeThrows(r, message) ==
  [r EXCEPT !.pc = "done", !.outcome = "fail", !.failure = Error(message),
            !.resp = finalizeAndRespond(r.fid, [ok |-> FALSE, user |-> NullUser,
                                                error |-> Error(message)])]

FinalizeReturns(r, row) ==
  [r EXCEPT !.pc = "done", !.outcome = "ok",
            !.resp = finalizeAndRespond(r.fid, [ok |-> TRUE, user |-> row,
                                                error |-> NoError])]

\* the request arrives; the argument check throws BAD_USER_INPUT
PollStart(s) ==
  /\ s \in active
  /\ req[s].op = "idle"
  /\ \E signer_uuid \in world.signers, username \in world.names :
       LET r == [Idle EXCEPT !.op = "poll", !.signer_uuid = signer_uuid,
                             !.username = username]
       IN req' = [req EXCEPT ![s] =
                    IF signer_uuid = "" \/ username = << >>
                      THEN [r EXCEPT !.pc = "done",
                                     !.resp = Thrown("BAD_USER_INPUT",
                                       Msg("signer_uuid and username are required for polling signup status."))]
                      ELSE [r EXCEPT !.pc = "lookupSigner"]]
  /\ UNCHANGED <<users, flashes, env, invaders, active, world, prev, leaderboardCache, now,
                 trendingCitiesCache, rawFlashes>>

\* await neynarClient.lookupSigner, then the status branches; the approved
\* branch enters finalizeSignupProcess, whose first statement checks the key
LookupSigner(s) ==
  /\ s \in active
  /\ req[s].op = "poll"
  /\ req[s].pc = "lookupSigner"
  /\ \E neynarSigner \in LookupAnswers :
       LET r == [req[s] EXCEPT !.lookup =
                  [kind |-> IF neynarSigner.throw THEN "throw" ELSE "ok",
                   status |-> neynarSigner.status, fid |-> neynarSigner.fid,
                   error |-> neynarSigner.error]]
       IN req' = [req EXCEPT ![s] =
            IF neynarSigner.throw
              THEN [r EXCEPT !.pc = "done", !.resp = LookupFailed(neynarSigner.error)]
            ELSE IF ShouldFinalize(neynarSigner)
              THEN LET f == [r EXCEPT !.fid = neynarSigner.fid,
                                      !.finalizeCalls = r.finalizeCalls + 1,
                                      !.before =
                                        [user |-> HasUser(users, neynarSigner.fid)
                                                    /\ users[neynarSigner.fid].deleted,
                                         flashes |-> {id \in DOMAIN flashes :
                                                        flashes[id].deleted},
                                         store |-> IF world.history
                                                     THEN [users |-> users,
                                                           flashes |-> flashes]
                                                     ELSE NoStore]]
                   IN IF env.SIGNER_ENCRYPTION_KEY = NULL
                        THEN FinalizeThrows(f,
                               Msg("SIGNER_ENCRYPTION_KEY is not set, cannot finalize signup."))
                        ELSE [f EXCEPT !.pc = "fetchBulkUsers"]
            ELSE [r EXCEPT !.pc = "done", !.resp = StatusResponse(neynarSigner)]]
  /\ UNCHANGED <<users, flashes, env, invaders, active, world, prev, leaderboardCache, now,
                 trendingCitiesCache, rawFlashes>>

(***************************************************************************)
(* SignupOperations.finalizeSignupProcess, one awaited call per step       *)
(***************************************************************************)
\* _fetchNeynarUserDetails: a throw or a missing user is rethrown, wrapped
FetchNeynarUserDetails(s) ==
  /\ s \in active
  /\ req[s].op = "poll"
  /\ req[s].pc = "fetchBulkUsers"
  /\ \E a \in ProfileAnswers :
       LET r == [req[s] EXCEPT !.profile = a.kind]
       IN req' = [req EXCEPT ![s] =
            IF a.kind = "throw"
              THEN FinalizeThrows(r, MsgCause("Error fetching Neynar user details for FID ",
                                              r.fid, a.error.message))
            ELSE IF a.kind = "nouser"
              THEN FinalizeThrows(r, MsgCause("Error fetching Neynar user details for FID ",
                                     r.fid,
                                     MsgFid("Could not fetch Neynar user details for FID ", r.fid)))
            ELSE [r EXCEPT !.pfpUrl = IF a.pfp_url = NULL THEN "" ELSE a.pfp_url,
                           !.farcasterUsername = IF a.hasUsername THEN a.username ELSE << >>,
                           !.pc = "getFlashes"]]
  /\ UNCHANGED <<users, flashes, env, invaders, active, world, prev, leaderboardCache, now,
                 trendingCitiesCache, rawFlashes>>

\* variant: the offset advances by the number of items received
nextOffsetByCount(offset, items) == offset + Len(items)

\* offset += FLASH_FETCH_LIMIT
nextOffset(offset, items) == offset + FLASH_FETCH_LIMIT

\* variant: a throw returns the flashes of the pages fetched before it
FetchAllFlashesForPlayerPartial(s) ==
  /\ s \in active
  /\ req[s].op = "poll"
  /\ req[s].pc = "getFlashes"
  /\ Len(req[s].calls) < MaxCalls
  /\ \E page \in FlashAnswers(req[s]) :
       LET r == [req[s] EXCEPT !.calls = Append(@, [offset |-> req[s].offset,
                                                    limit |-> FLASH_FETCH_LIMIT,
                                                    player |-> escapeRegex(req[s].username),
                                                    throw |-> page.throw,
                                                    items |-> page.items,
                                                    hasNext |-> page.hasNext])]
       IN req' = [req EXCEPT ![s] =
            IF page.throw
              THEN [r EXCEPT !.fetched = "error", !.pc = "insertUser"]
              ELSE [r EXCEPT !.playerFlashes = @ \o page.items,
                             !.offset = nextOffset(@, page.items),
                             !.fetched = IF page.hasNext THEN "more" ELSE "ok",
                             !.pc = IF page.hasNext THEN "getFlashes" ELSE "insertUser"]]
  /\ UNCHANGED <<users, flashes, env, invaders, active, world, prev, leaderboardCache, now,
                 trendingCitiesCache, rawFlashes>>

\* variant: the loop also ends once more than MAX_FLASHES_TO_INSERT flashes
\* are collected
FetchAllFlashesForPlayerCapped(s) ==
  /\ s \in active
  /\ req[s].op = "poll"
  /\ req[s].pc = "getFlashes"
  /\ Len(req[s].calls) < MaxCalls
  /\ \E page \in FlashAnswers(req[s]) :
       LET r == [req[s] EXCEPT !.calls = Append(@, [offset |-> req[s].offset,
                                                    limit |-> FLASH_FETCH_LIMIT,
                                                    player |-> escapeRegex(req[s].username),
                                                    throw |-> page.throw,
                                                    items |-> page.items,
                                                    hasNext |-> page.hasNext])]
           more == page.hasNext
                   /\ Len(req[s].playerFlashes) + Len(page.items) <= MAX_FLASHES_TO_INSERT
       IN req' = [req EXCEPT ![s] =
            IF page.throw
              THEN [r EXCEPT !.playerFlashes = << >>, !.fetched = "error",
                             !.pc = "insertUser"]
              ELSE [r EXCEPT !.playerFlashes = @ \o page.items,
                             !.offset = nextOffset(@, page.items),
                             !.fetched = IF more THEN "more" ELSE "ok",
                             !.pc = IF more THEN "getFlashes" ELSE "insertUser"]]
  /\ UNCHANGED <<users, flashes, env, invaders, active, world, prev, leaderboardCache, now,
                 trendingCitiesCache, rawFlashes>>

\* _fetchAllFlashesForPlayer: one iteration of the do/while; a throw returns []
FetchAllFlashesForPlayer(s) ==
  /\ s \in active
  /\ req[s].op = "poll"
  /\ req[s].pc = "getFlashes"
  /\ Len(req[s].calls) < MaxCalls
  /\ \E page \in FlashAnswers(req[s]) :
       LET r == [req[s] EXCEPT !.calls = Append(@, [offset |-> req[s].offset,
                                                    limit |-> FLASH_FETCH_LIMIT,
                                                    player |-> escapeRegex(req[s].username),
                                                    throw |-> page.throw,
                                                    items |-> page.items,
                                                    hasNext |-> page.hasNext])]
       IN req' = [req EXCEPT ![s] =
            IF page.throw
              THEN [r EXCEPT !.playerFlashes = << >>, !.fetched = "error",
                             !.pc = "insertUser"]
              ELSE [r EXCEPT !.playerFlashes = @ \o page.items,
                             !.offset = nextOffset(@, page.items),
                             !.fetched = IF page.hasNext THEN "more" ELSE "ok",
                             !.pc = IF page.hasNext THEN "getFlashes" ELSE "insertUser"]]
  /\ UNCHANGED <<users, flashes, env, invaders, active, world, prev, leaderboardCache, now,
                 trendingCitiesCache, rawFlashes>>

\* const userToStore = { fid, username: flashInvadersPlayerName, signer_uuid: encrypt(..), auto_cast: true }
userToStore(r, iv) ==
  [fid |-> r.fid, username |-> r.username,
   signer_uuid |-> encrypt(r.signer_uuid, env.SIGNER_ENCRYPTION_KEY, iv),
   auto_cast |-> TRUE]

\* variant: the ceiling compared with >=
AfterUserStoredAtCeiling(r) ==
  IF Len(r.playerFlashes) >= MAX_FLASHES_TO_INSERT THEN "getByFid"
  ELSE IF Len(r.playerFlashes) > 0 THEN "insertMany"
  ELSE "getByFid"

\* the if / else if / else after the user upsert
AfterUserStored(r) ==
  IF Len(r.playerFlashes) > MAX_FLASHES_TO_INSERT THEN "getByFid"
  ELSE IF Len(r.playerFlashes) > 0 THEN "insertMany"
  ELSE "getByFid"

\* _storeUserDetails: a failed statement is rethrown, wrapped
StoreUserDetails(s) ==
  /\ s \in active
  /\ req[s].op = "poll"
  /\ req[s].pc = "insertUser"
  /\ \E iv \in world.ivs, dbOk \in world.dbOk :
       IF dbOk
         THEN LET result == insert(users, userToStore(req[s], iv))
              IN /\ users' = result.tbl
                 /\ req' = [req EXCEPT ![s] =
                      IF Len(result.rows) = 0
                        THEN FinalizeThrows(req[s],
                               MsgCause("Database error during user data storage for FID ",
                                        req[s].fid, Msg("Failed to insert or update user")))
                        ELSE [req[s] EXCEPT !.pc = AfterUserStored(req[s])]]
         ELSE /\ users' = users
              /\ req' = [req EXCEPT ![s] =
                   FinalizeThrows([req[s] EXCEPT !.dbFailed = TRUE],
                     MsgCause("Database error during user data storage for FID ",
                              req[s].fid, DbError.message))]
  /\ UNCHANGED <<flashes, env, invaders, active, world, prev, leaderboardCache, now,
                 trendingCitiesCache, rawFlashes>>

\* playerFlashes.map(flash => ({flash_id, user_fid, user_username, user_pfp_url, cast_hash: null}))
dbFlashesToStore(r) ==
  [i \in DOMAIN r.playerFlashes |->
     [flash_id |-> r.playerFlashes[i], user_fid |-> r.fid,
      user_username |-> r.farcasterUsername, user_pfp_url |-> r.pfpUrl,
      cast_hash |-> NULL]]

\* variant: a failed statement is rethrown, wrapped
StorePlayerFlashesFatal(s) ==
  /\ s \in active
  /\ req[s].op = "poll"
  /\ req[s].pc = "insertMany"
  /\ \E dbOk \in world.dbOk :
       IF dbOk
         THEN /\ flashes' = insertMany(flashes, dbFlashesToStore(req[s]))
              /\ req' = [req EXCEPT ![s].pc = "getByFid"]
         ELSE /\ flashes' = flashes
              /\ req' = [req EXCEPT ![s] =
                   FinalizeThrows([req[s] EXCEPT !.dbFailed = TRUE],
                     MsgCause("Database error during flash storage for FID ",
                              req[s].fid, DbError.message))]
  /\ UNCHANGED <<users, env, invaders, active, world, prev, leaderboardCache, now,
                 trendingCitiesCache, rawFlashes>>

\* _storePlayerFlashes: a failed statement is logged and swallowed
StorePlayerFlashes(s) ==
  /\ s \in active
  /\ req[s].op = "poll"
  /\ req[s].pc = "insertMany"
  /\ \E dbOk \in world.dbOk :
       IF dbOk
         THEN /\ flashes' = insertMany(flashes, dbFlashesToStore(req[s]))
              /\ req' = [req EXCEPT ![s].pc = "getByFid"]
         ELSE /\ flashes' = flashes
              /\ req' = [req EXCEPT ![s].pc = "getByFid", ![s].dbFailed = TRUE]
  /\ UNCHANGED <<users, env, invaders, active, world, prev, leaderboardCache, now,
                 trendingCitiesCache, rawFlashes>>

\* _getFinalizedUserFromDb: a failed statement or a missing row is rethrown
GetFinalizedUserFromDb(s) ==
  /\ s \in active
  /\ req[s].op = "poll"
  /\ req[s].pc = "getByFid"
  /\ \E dbOk \in world.dbOk :
       req' = [req EXCEPT ![s] =
         IF ~dbOk
           THEN FinalizeThrows([req[s] EXCEPT !.dbFailed = TRUE],
                  MsgCause("Error fetching user FID post-finalization: ",
                           req[s].fid, DbError.message))
         ELSE IF ~HasUser(users, req[s].fid)
           THEN FinalizeThrows(req[s],
                  MsgCause("Error fetching user FID post-finalization: ", req[s].fid,
                    MsgFid("User FID not found in DB after finalization.", req[s].fid)))
         ELSE FinalizeReturns(req[s], users[req[s].fid])]
  /\ UNCHANGED <<users, flashes, env, invaders, active, world, prev, leaderboardCache, now,
                 trendingCitiesCache, rawFlashes>>

\* the response is delivered and the slot is free again; a run that compares
\* consecutive finalizes remembers one that succeeded until anything else
\* writes to the store
Snapshot(r) ==
  [set |-> TRUE, fid |-> r.fid, signer_uuid |-> r.signer_uuid, username |-> r.username,
   pfpUrl |-> r.pfpUrl, farcasterUsername |-> r.farcasterUsername,
   playerFlashes |-> r.playerFlashes, fetched |-> r.fetched,
   dbFailed |-> r.dbFailed, row |-> users[r.fid],
   crashed |-> FALSE, store |-> r.before.store]

Respond(s) ==
  /\ s \in active
  /\ req[s].op # "idle"
  /\ req[s].pc = "done"
  /\ req' = [req EXCEPT ![s] = Idle]
  /\ prev' = IF world.remember /\ req[s].op = "poll" /\ req[s].finalizeCalls > 0
               THEN IF req[s].outcome = "ok" THEN Snapshot(req[s]) ELSE NoPrev
               ELSE prev
  /\ UNCHANGED <<users, flashes, env, invaders, active, world, leaderboardCache, now,
                 trendingCitiesCache, rawFlashes>>

(***************************************************************************)
(* resolvers.Mutation.setUserAutoCast                                      *)
(***************************************************************************)
SetUserAutoCastStart(s) ==
  /\ s \in active
  /\ req[s].op = "idle"
  /\ \E fid \in world.fids, auto_cast \in BOOLEAN, apiKey \in ApiKeyHeaders :
       LET r == [Idle EXCEPT !.op = "setUserAutoCast", !.fid = fid, !.auto_cast = auto_cast,
                             !.apiKey = apiKey]
       IN req' = [req EXCEPT ![s] =
            IF verifyApiKey(apiKey, env.API_KEY)
              THEN [r EXCEPT !.pc = "updateAutocast"]
              ELSE [r EXCEPT !.pc = "done",
                             !.resp = Thrown("UNAUTHORIZED", Msg("Unauthorized: Invalid API key"))]]
  /\ UNCHANGED <<users, flashes, env, invaders, active, world, prev, leaderboardCache, now,
                 trendingCitiesCache, rawFlashes>>

\* await db.updateAutocast: a failed statement and an unknown fid both end in DATABASE_ERROR
UpdateAutocast(s) ==
  /\ s \in active
  /\ req[s].op = "setUserAutoCast"
  /\ req[s].pc = "updateAutocast"
  /\ \E dbOk \in world.dbOk :
       IF dbOk /\ Len(updateAutocastRows(users, req[s].fid)) # 0
         THEN /\ users' = updateAutocast(users, req[s].fid, req[s].auto_cast)
              /\ req' = [req EXCEPT ![s].pc = "getByFid"]
              /\ prev' = NoPrev
         ELSE /\ users' = users
              /\ req' = [req EXCEPT ![s].pc = "done", ![s].dbFailed = ~dbOk,
                                    ![s].resp = Thrown("DATABASE_ERROR",
                                       Msg("Failed to update user auto_cast setting."))]
              /\ prev' = prev
  /\ UNCHANGED <<flashes, env, invaders, active, world, leaderboardCache, now, trendingCitiesCache, rawFlashes>>

\* const updatedUser = await db.getByFid(args.fid)
ReadUpdatedUser(s) ==
  /\ s \in active
  /\ req[s].op = "setUserAutoCast"
  /\ req[s].pc = "getByFid"
  /\ \E dbOk \in world.dbOk :
       req' = [req EXCEPT ![s] =
         IF ~dbOk
           THEN [req[s] EXCEPT !.pc = "done", !.dbFailed = TRUE,
                               !.resp = Thrown("INTERNAL_SERVER_ERROR", DbError.message)]
         ELSE IF ~HasUser(users, req[s].fid)
           THEN [req[s] EXCEPT !.pc = "done",
                               !.resp = Thrown("NOT_FOUND", Msg("User not found after update."))]
         ELSE [req[s] EXCEPT !.pc = "done",
                             !.resp = [kind |-> "return", user |-> users[req[s].fid]]]]
  /\ UNCHANGED <<users, flashes, env, invaders, active, world, prev, leaderboardCache, now,
                 trendingCitiesCache, rawFlashes>>

(***************************************************************************)
(* resolvers.Mutation.deleteUser                                           *)
(***************************************************************************)
DeleteUserStart(s) ==
  /\ s \in active
  /\ req[s].op = "idle"
  /\ \E fid \in world.fids, apiKey \in ApiKeyHeaders :
       LET r == [Idle EXCEPT !.op = "deleteUser", !.fid = fid, !.apiKey = apiKey]
       IN req' = [req EXCEPT ![s] =
            IF verifyApiKey(apiKey, env.API_KEY)
              THEN [r EXCEPT !.pc = "getByFid"]
              ELSE [r EXCEPT !.pc = "done",
                             !.resp = Thrown("UNAUTHORIZED", Msg("Unauthorized: Invalid API key"))]]
  /\ UNCHANGED <<users, flashes, env, invaders, active, world, prev, leaderboardCache, now,
                 trendingCitiesCache, rawFlashes>>

\* const user = await usersDb.getByFid(args.fid)
DeleteUserLookup(s) ==
  /\ s \in active
  /\ req[s].op = "deleteUser"
  /\ req[s].pc = "getByFid"
  /\ \E dbOk \in world.dbOk :
       req' = [req EXCEPT ![s] =
         IF ~dbOk
           THEN [req[s] EXCEPT !.pc = "done", !.dbFailed = TRUE,
                               !.resp = Deleted(FALSE, Msg("User deletion failed"))]
         ELSE IF ~HasUser(users, req[s].fid)
           THEN [req[s] EXCEPT !.pc = "done",
                               !.resp = Deleted(FALSE, Msg("User not found"))]
         ELSE [req[s] EXCEPT !.pc = "deleteByFid",
                             !.before =
                               [NoneDeleted EXCEPT
                                  !.user = users[req[s].fid].deleted,
                                  !.flashes = {id \in DOMAIN flashes :
                                                 flashes[id].deleted}]]]
  /\ UNCHANGED <<users, flashes, env, invaders, active, world, prev, leaderboardCache, now,
                 trendingCitiesCache, rawFlashes>>

\* await usersDb.deleteByFid; await flashesDb.deleteManyByFid; any throw is
\* caught and answered with "User deletion failed"
DeleteUserWrite(s) ==
  /\ s \in active
  /\ req[s].op = "deleteUser"
  /\ req[s].pc \in {"deleteByFid", "deleteManyByFid"}
  /\ \E dbOk \in world.dbOk, result \in deleteByFidRows(users, req[s].fid) :
       IF ~dbOk
         THEN /\ UNCHANGED <<users, flashes, prev>>
              /\ req' = [req EXCEPT ![s].pc = "done", ![s].dbFailed = TRUE,
                                    ![s].resp = Deleted(FALSE, Msg("User deletion failed"))]
       ELSE IF req[s].pc = "deleteByFid"
         THEN /\ users' = deleteByFid(users, req[s].fid)
              /\ flashes' = flashes
              /\ prev' = NoPrev
              /\ req' = [req EXCEPT ![s] =
                   IF Len(result) = 0
                     THEN [req[s] EXCEPT !.pc = "done",
                                         !.resp = Deleted(FALSE, Msg("User deletion failed"))]
                     ELSE [req[s] EXCEPT !.pc = "deleteManyByFid"]]
       ELSE /\ flashes' = deleteManyByFid(flashes, req[s].fid)
            /\ users' = users
            /\ prev' = NoPrev
            /\ req' = [req EXCEPT ![s].pc = "done",
                                  ![s].resp = Deleted(TRUE, Msg("User deleted successfully"))]
  /\ UNCHANGED <<env, invaders, active, world, leaderboardCache, now, trendingCitiesCache, rawFlashes>>

(***************************************************************************)
(* resolvers.Mutation.initiateSignup and                                   *)
(* SignupOperations.initiateSignerCreation                                 *)
(***************************************************************************)
InitiateNames ==
  {<< >>, <<" ">>, <<" ", "\t", " ">>, <<"a">>, <<" ", "a", " ">>,
   <<"A", "n", "o", "n", "y", "m", "o", "u", "s">>}

Anonymous == <<"a", "n", "o", "n", "y", "m", "o", "u", "s">>

\* getSignedKey(true): throws, or a signer awaiting approval
SignedKeyAnswers ==
  {[throw |-> TRUE, error |-> e, signer_uuid |-> ""] : e \in UpstreamErrors}
  \cup {[throw |-> FALSE, error |-> NoError, signer_uuid |-> "s1"]}

\* the resolver's own check, then initiateSignerCreation's two checks
InitiateSignupStart(s) ==
  /\ s \in active
  /\ req[s].op = "idle"
  /\ \E username \in InitiateNames :
       LET r == [Idle EXCEPT !.op = "initiateSignup", !.username = username]
       IN req' = [req EXCEPT ![s] =
            IF username = << >>
              THEN [r EXCEPT !.pc = "done",
                             !.resp = Thrown("BAD_USER_INPUT",
                                             Msg("Username is required to initiate signup."))]
            ELSE IF trim(username) = << >>
              THEN [r EXCEPT !.pc = "done",
                             !.resp = Thrown("INTERNAL_SERVER_ERROR",
                                        Msg("Username is required to initiate signer creation."))]
            ELSE IF toLowerCase(username) = Anonymous
              THEN [r EXCEPT !.pc = "done",
                             !.resp = Thrown("INTERNAL_SERVER_ERROR",
                                             Msg("Username 'anonymous' is not allowed."))]
            ELSE [r EXCEPT !.pc = "getSignedKey"]]
  /\ UNCHANGED <<users, flashes, env, invaders, active, world, prev, leaderboardCache, now,
                 trendingCitiesCache, rawFlashes>>

\* await getSignedKey(true); a throw is wrapped and leaves the resolver
GetSignedKey(s) ==
  /\ s \in active
  /\ req[s].op = "initiateSignup"
  /\ req[s].pc = "getSignedKey"
  /\ \E signerData \in SignedKeyAnswers :
       LET r == [req[s] EXCEPT !.keyCalls = @ + 1, !.pc = "done"]
       IN req' = [req EXCEPT ![s] =
            IF signerData.throw
              THEN [r EXCEPT !.resp =
                      Thrown("INTERNAL_SERVER_ERROR",
                             [text |-> "Failed to create signer key for ", fid |-> 0,
                              arg |-> r.username, cause |-> <<signerData.error.message>>])]
              ELSE [r EXCEPT !.resp =
                      [kind |-> "return", signer_uuid |-> signerData.signer_uuid,
                       status |-> Status("pending_approval", << >>)]]]
  /\ UNCHANGED <<users, flashes, env, invaders, active, world, prev, leaderboardCache, now,
                 trendingCitiesCache, rawFlashes>>

(***************************************************************************)
(* resolvers.Query.getLeaderboard                                          *)
(***************************************************************************)
Limits == {0, 1, 2, 600}

Max(a, b) == IF a > b THEN a ELSE b

\* Math.min(Math.max(1, limit), 500)
validateLimit(limit) == Min(Max(1, limit), 500)

\* data.slice(0, n)
slice(data, n) == SubSeq(data, 1, Min(n, Len(data)))

\* the flashes joined to user fid: ff.user_fid = u.fid AND ff.deleted = false
JoinedFlashes(fid) ==
  {id \in DOMAIN flashes : flashes[id].user_fid = fid /\ ~flashes[id].deleted}

\* the users the query can name without asking Neynar, counted when the cache
\* entry is made
EligibleUsers ==
  {fid \in DOMAIN users :
     /\ ~users[fid].deleted
     /\ \E id \in JoinedFlashes(fid) : flashes[id].user_username # << >>}

\* one group of the query: MAX(ff.user_username), MAX(ff.user_pfp_url),
\* COUNT(ff.flash_id); MAX over no rows is NULL, and the empty text sorts lowest
LeaderboardRow(fid) ==
  LET names == {flashes[id].user_username : id \in JoinedFlashes(fid)}
      pfps == {flashes[id].user_pfp_url : id \in JoinedFlashes(fid)}
  IN [fid |-> fid,
      hasUsername |-> names # {},
      username |-> IF \E n \in names : n # << >>
                     THEN CHOOSE n \in names : n # << >> ELSE << >>,
      pfp_url |-> IF pfps = {} THEN NULL
                  ELSE IF \E q \in pfps : q # "" THEN CHOOSE q \in pfps : q # "" ELSE "",
      flash_count |-> Cardinality(JoinedFlashes(fid))]

\* WHERE u.deleted = false GROUP BY u.fid ORDER BY flash_count DESC ... LIMIT $1:
\* the results the store may hand back, rows of equal count in any order
LeaderboardRows(limit) ==
  LET U == {fid \in DOMAIN users : ~users[fid].deleted}
      n == Cardinality(U)
      orders == {q \in [1..n -> U] :
                   /\ \A i, j \in 1..n : i # j => q[i] # q[j]
                   /\ \A i, j \in 1..n :
                        i < j => LeaderboardRow(q[i]).flash_count >=
                                 LeaderboardRow(q[j]).flash_count}
  IN {[i \in 1..Min(limit, n) |-> LeaderboardRow(q[i])] : q \in orders}

\* !row.username
NoUsername(row) == ~row.hasUsername \/ row.username = << >>

\* result.rows.filter(row => !row.username && row.flash_count > 0).map(row => row.fid)
fidsNeedingUsernames(rows) ==
  {rows[i].fid : i \in {j \in DOMAIN rows : NoUsername(rows[j]) /\ rows[j].flash_count > 0}}

\* the merge with the names fetched for the fids in `found`, and the filter
\* that drops the entries left without a username
leaderboardData(rows, found) ==
  LET Named(row) == ~NoUsername(row) \/ row.fid \in found
      Entry(row) ==
        [username |-> IF ~NoUsername(row) THEN row.username ELSE FcName,
         pfp_url |-> IF row.pfp_url \notin {NULL, ""} THEN row.pfp_url
                     ELSE IF row.fid \in found THEN "pfp" ELSE NULL,
         flash_count |-> row.flash_count]
      kept == SelectSeq(rows, Named)
  IN [i \in DOMAIN kept |-> Entry(kept[i])]

\* the cache is updated and the data returned
LeaderboardFinish(r, found) ==
  [r EXCEPT !.pc = "done",
            !.resp = [kind |-> "return", hit |-> FALSE,
                      data |-> leaderboardData(r.rows, found)]]

\* the cache check: a valid entry answers the request at once
GetLeaderboardStart(s) ==
  /\ s \in active
  /\ req[s].op = "idle"
  /\ \E limit \in Limits :
       LET r == [Idle EXCEPT !.op = "getLeaderboard", !.limit = limit,
                             !.validatedLimit = validateLimit(limit),
                             !.startedAt = now]
       IN req' = [req EXCEPT ![s] =
            IF leaderboardCache.set /\ now - leaderboardCache.timestamp < LEADERBOARD_CACHE_TTL
              THEN [r EXCEPT !.pc = "done",
                             !.resp = [kind |-> "return", hit |-> TRUE,
                                       data |-> slice(leaderboardCache.data,
                                                      r.validatedLimit)]]
              ELSE [r EXCEPT !.pc = "query"]]
  /\ UNCHANGED <<users, flashes, env, invaders, active, world, prev, leaderboardCache, now,
                 trendingCitiesCache, rawFlashes>>

\* await pool.query(query, [validatedLimit]); a failed statement leaves the resolver
GetLeaderboardQuery(s) ==
  /\ s \in active
  /\ req[s].op = "getLeaderboard"
  /\ req[s].pc = "query"
  /\ \E dbOk \in world.dbOk, rows \in LeaderboardRows(req[s].validatedLimit) :
       IF ~dbOk
         THEN /\ req' = [req EXCEPT ![s].pc = "done", ![s].dbFailed = TRUE,
                                    ![s].resp = Thrown("INTERNAL_SERVER_ERROR", DbError.message)]
              /\ UNCHANGED leaderboardCache
         ELSE LET r == [req[s] EXCEPT !.rows = rows]
              IN IF fidsNeedingUsernames(rows) # {}
                   THEN /\ req' = [req EXCEPT ![s] = [r EXCEPT !.pc = "fetchBulkUsers"]]
                        /\ UNCHANGED leaderboardCache
                   ELSE /\ req' = [req EXCEPT ![s] = LeaderboardFinish(r, {})]
                        /\ leaderboardCache' =
                             [set |-> TRUE, data |-> leaderboardData(rows, {}),
                              timestamp |-> r.startedAt,
                              eligible |-> Cardinality(EligibleUsers)]
  /\ UNCHANGED <<users, flashes, env, invaders, active, world, prev, now, trendingCitiesCache, rawFlashes>>

\* await neynarClient.fetchBulkUsers({fids: fidsNeedingUsernames}): a throw is
\* logged and swallowed; the users answered with a username are merged in
GetLeaderboardNames(s) ==
  /\ s \in active
  /\ req[s].op = "getLeaderboard"
  /\ req[s].pc = "fetchBulkUsers"
  /\ \E found \in SUBSET fidsNeedingUsernames(req[s].rows) :
       /\ req' = [req EXCEPT ![s] = LeaderboardFinish(req[s], found)]
       /\ leaderboardCache' =
            [set |-> TRUE, data |-> leaderboardData(req[s].rows, found),
             timestamp |-> req[s].startedAt,
             eligible |-> Cardinality(EligibleUsers)]
  /\ UNCHANGED <<users, flashes, env, invaders, active, world, prev, now, trendingCitiesCache, rawFlashes>>

\* half an hour passes
Tick ==
  /\ now < MaxTicks * (LEADERBOARD_CACHE_TTL \div 2)
  /\ now' = now + LEADERBOARD_CACHE_TTL \div 2
  /\ UNCHANGED <<users, flashes, env, invaders, active, req, world, prev, leaderboardCache,
                 trendingCitiesCache, rawFlashes>>

(***************************************************************************)
(* resolvers.Query.getTrendingCities                                       *)
(***************************************************************************)
Cities == {"Paris", "Lyon"}
HoursArgs == {6, 24}
HourMs == 3600000

\* city NOT IN ('Paris', 'paris', 'PARIS')
IsParis(city) == city \in {"Paris", "paris", "PARIS"}

\* WHERE timestamp >= $1 AND city IS NOT NULL [AND city NOT IN (...)], over the
\* first n rows of the table
TrendingSelected(n, hoursAgo, excludeParis) ==
  {i \in 1..n :
     /\ rawFlashes[i].timestamp >= hoursAgo
     /\ rawFlashes[i].city # NULL
     /\ ~(excludeParis /\ IsParis(rawFlashes[i].city))}

\* COUNT(*) of the group of a city
TrendingCount(selected, city) ==
  Cardinality({i \in selected : rawFlashes[i].city = city})

\* GROUP BY city ORDER BY count DESC LIMIT 10: the results the store may hand
\* back, cities of equal count in any order
TrendingRows(hoursAgo, excludeParis) ==
  LET selected == TrendingSelected(Len(rawFlashes), hoursAgo, excludeParis)
      C == {rawFlashes[i].city : i \in selected}
      n == Cardinality(C)
      orders == {q \in [1..n -> C] :
                   /\ \A i, j \in 1..n : i # j => q[i] # q[j]
                   /\ \A i, j \in 1..n :
                        i < j => TrendingCount(selected, q[i]) >=
                                 TrendingCount(selected, q[j])}
  IN {[i \in 1..Min(10, n) |-> [city |-> q[i], count |-> TrendingCount(selected, q[i])]] :
        q \in orders}

\* the cache check: a valid entry answers the request at once, whatever the
\* arguments
GetTrendingCitiesStart(s) ==
  /\ s \in active
  /\ req[s].op = "idle"
  /\ \E excludeParis \in BOOLEAN, hours \in HoursArgs :
       LET r == [Idle EXCEPT !.op = "getTrendingCities", !.excludeParis = excludeParis,
                             !.hours = hours, !.startedAt = now]
       IN req' = [req EXCEPT ![s] =
            IF trendingCitiesCache.set /\ now - trendingCitiesCache.timestamp < TRENDING_CACHE_TTL
              THEN [r EXCEPT !.pc = "done",
                             !.resp = [kind |-> "return", hit |-> TRUE,
                                       data |-> trendingCitiesCache.data]]
              ELSE [r EXCEPT !.pc = "query"]]
  /\ UNCHANGED <<users, flashes, env, invaders, active, world, prev, leaderboardCache, now,
                 trendingCitiesCache, rawFlashes>>

\* await pool.query(query, [hoursAgo]); the cache is updated and the data returned
GetTrendingCitiesQuery(s) ==
  /\ s \in active
  /\ req[s].op = "getTrendingCities"
  /\ req[s].pc = "query"
  /\ \E dbOk \in world.dbOk,
        rows \in TrendingRows(req[s].startedAt - req[s].hours * HourMs, req[s].excludeParis) :
       IF ~dbOk
         THEN /\ req' = [req EXCEPT ![s].pc = "done", ![s].dbFailed = TRUE,
                                    ![s].resp = Thrown("INTERNAL_SERVER_ERROR", DbError.message)]
              /\ UNCHANGED trendingCitiesCache
         ELSE /\ req' = [req EXCEPT ![s].pc = "done",
                                    ![s].resp = [kind |-> "return", hit |-> FALSE,
                                                 data |-> rows]]
              /\ trendingCitiesCache' =
                   [set |-> TRUE, data |-> rows, timestamp |-> req[s].startedAt,
                    seen |-> Len(rawFlashes)]
  /\ UNCHANGED <<users, flashes, env, invaders, active, world, prev, leaderboardCache, now,
                 rawFlashes>>

\* the crawler stores a flash it has just seen
FlashArrives ==
  /\ Len(rawFlashes) < MaxRawFlashes
  /\ \E city \in Cities :
       rawFlashes' = Append(rawFlashes, [city |-> city, timestamp |-> now])
  /\ UNCHANGED <<users, flashes, env, invaders, active, req, world, prev, leaderboardCache,
                 now, trendingCitiesCache>>

\* half a day passes
TickHalfDay ==
  /\ now < MaxTicks * (TRENDING_CACHE_TTL \div 2)
  /\ now' = now + TRENDING_CACHE_TTL \div 2
  /\ UNCHANGED <<users, flashes, env, invaders, active, req, world, prev, leaderboardCache,
                 trendingCitiesCache, rawFlashes>>

(***************************************************************************)
(* The publisher that shares the table records the cast it made of a flash *)
(***************************************************************************)
CastHashes == {"0xcast"}

RecordCast ==
  /\ \E id \in DOMAIN flashes, h \in CastHashes :
       /\ flashes[id].cast_hash = NULL
       /\ flashes' = [flashes EXCEPT ![id].cast_hash = h]
  /\ prev' = NoPrev
  /\ UNCHANGED <<users, env, invaders, active, req, world, leaderboardCache, now,
                 trendingCitiesCache, rawFlashes>>

(***************************************************************************)
(* The specification: requests served one at a time by an arbitrary        *)
(* activity service                                                        *)
(***************************************************************************)
Envs == [SIGNER_ENCRYPTION_KEY : {NULL, "key"}, API_KEY : {NULL, "secret"}]

Init ==
  /\ users = << >>
  /\ flashes = << >>
  /\ env \in Envs
  /\ invaders = [mode |-> "free", size |-> 0]
  /\ active = {1}
  /\ req = [s \in AllSlots |-> Idle]
  /\ world = [fids |-> {1}, signers |-> {"", "s1"}, names |-> NameArgs,
              ivs |-> IVs, dbOk |-> BOOLEAN, remember |-> FALSE,
              history |-> FALSE]
  /\ prev = NoPrev
  /\ leaderboardCache = NoCache
  /\ now = 0
  /\ trendingCitiesCache = NoCache
  /\ rawFlashes = << >>

Next ==
  \/ \E s \in AllSlots : PollStart(s)
  \/ \E s \in AllSlots : LookupSigner(s)
  \/ \E s \in AllSlots : FetchNeynarUserDetails(s)
  \/ \E s \in AllSlots : FetchAllFlashesForPlayer(s)
  \/ \E s \in AllSlots : StoreUserDetails(s)
  \/ \E s \in AllSlots : StorePlayerFlashes(s)
  \/ \E s \in AllSlots : GetFinalizedUserFromDb(s)
  \/ \E s \in AllSlots : Respond(s)
  \/ \E s \in AllSlots : SetUserAutoCastStart(s)
  \/ \E s \in AllSlots : UpdateAutocast(s)
  \/ \E s \in AllSlots : ReadUpdatedUser(s)
  \/ \E s \in AllSlots : DeleteUserStart(s)
  \/ \E s \in AllSlots : DeleteUserLookup(s)
  \/ \E s \in AllSlots : DeleteUserWrite(s)
  \/ \E s \in AllSlots : InitiateSignupStart(s)
  \/ \E s \in AllSlots : GetSignedKey(s)
  \/ RecordCast

Spec == Init /\ [][Next]_vars

(***************************************************************************)
(* The specification of the ceiling: one player whose catalog at the       *)
(* activity service holds MAX_FLASHES_TO_INSERT flashes, and then one more *)
(***************************************************************************)
\* the player flashes one more invader between two requests
CatalogGrows ==
  /\ invaders.mode = "catalog"
  /\ invaders.size <= MAX_FLASHES_TO_INSERT
  /\ \A s \in AllSlots : req[s].op = "idle"
  /\ invaders' = [invaders EXCEPT !.size = @ + 1]
  /\ UNCHANGED <<users, flashes, env, active, req, world, prev, leaderboardCache, now,
                 trendingCitiesCache, rawFlashes>>

InitCeiling ==
  /\ users = << >>
  /\ flashes = << >>
  /\ env = [SIGNER_ENCRYPTION_KEY |-> "key", API_KEY |-> "secret"]
  /\ invaders = [mode |-> "catalog", size |-> MAX_FLASHES_TO_INSERT]
  /\ active = {1}
  /\ req = [s \in AllSlots |-> Idle]
  /\ world = [fids |-> {1}, signers |-> {"s1"}, names |-> {<<"a">>},
              ivs |-> {1}, dbOk |-> {TRUE}, remember |-> FALSE,
              history |-> FALSE]
  /\ prev = NoPrev
  /\ leaderboardCache = NoCache
  /\ now = 0
  /\ trendingCitiesCache = NoCache
  /\ rawFlashes = << >>

NextCeiling ==
  \/ \E s \in AllSlots : PollStart(s)
  \/ \E s \in AllSlots : LookupSigner(s)
  \/ \E s \in AllSlots : FetchNeynarUserDetails(s)
  \/ \E s \in AllSlots : FetchAllFlashesForPlayer(s)
  \/ \E s \in AllSlots : StoreUserDetails(s)
  \/ \E s \in AllSlots : StorePlayerFlashes(s)
  \/ \E s \in AllSlots : GetFinalizedUserFromDb(s)
  \/ \E s \in AllSlots : Respond(s)
  \/ CatalogGrows

SpecCeiling == InitCeiling /\ [][NextCeiling]_vars

(***************************************************************************)
(* The specification of repeated signups: the API with its keys configured,*)
(* remembering the last successful finalize                                *)
(***************************************************************************)
InitRepeat ==
  /\ users = << >>
  /\ flashes = << >>
  /\ env = [SIGNER_ENCRYPTION_KEY |-> "key", API_KEY |-> "secret"]
  /\ invaders = [mode |-> "free", size |-> 0]
  /\ active = {1}
  /\ req = [s \in AllSlots |-> Idle]
  /\ world = [fids |-> {1}, signers |-> {"s1"}, names |-> NameArgs \ {<< >>},
              ivs |-> IVs, dbOk |-> BOOLEAN, remember |-> TRUE,
              history |-> FALSE]
  /\ prev = NoPrev
  /\ leaderboardCache = NoCache
  /\ now = 0
  /\ trendingCitiesCache = NoCache
  /\ rawFlashes = << >>

NextRepeat ==
  \/ \E s \in AllSlots : PollStart(s)
  \/ \E s \in AllSlots : LookupSigner(s)
  \/ \E s \in AllSlots : FetchNeynarUserDetails(s)
  \/ \E s \in AllSlots : FetchAllFlashesForPlayer(s)
  \/ \E s \in AllSlots : StoreUserDetails(s)
  \/ \E s \in AllSlots : StorePlayerFlashes(s)
  \/ \E s \in AllSlots : GetFinalizedUserFromDb(s)
  \/ \E s \in AllSlots : Respond(s)
  \/ \E s \in AllSlots : SetUserAutoCastStart(s)
  \/ \E s \in AllSlots : UpdateAutocast(s)
  \/ \E s \in AllSlots : ReadUpdatedUser(s)
  \/ \E s \in AllSlots : DeleteUserStart(s)
  \/ \E s \in AllSlots : DeleteUserLookup(s)
  \/ \E s \in AllSlots : DeleteUserWrite(s)

SpecRepeat == InitRepeat /\ [][NextRepeat]_vars

(***************************************************************************)
(* The specification of two concurrent signups: two pollSignupStatus       *)
(* requests in flight at once, their awaited calls interleaved, for a      *)
(* player with one flash at the activity service                           *)
(***************************************************************************)
InitConcurrent ==
  /\ users = << >>
  /\ flashes = << >>
  /\ env = [SIGNER_ENCRYPTION_KEY |-> "key", API_KEY |-> "secret"]
  /\ invaders = [mode |-> "catalog", size |-> 1]
  /\ active = {1, 2}
  /\ req = [s \in AllSlots |-> Idle]
  /\ world = [fids |-> {1}, signers |-> {"s1", "s2"}, names |-> NameArgs \ {<< >>},
              ivs |-> IVs, dbOk |-> BOOLEAN, remember |-> FALSE,
              history |-> FALSE]
  /\ prev = NoPrev
  /\ leaderboardCache = NoCache
  /\ now = 0
  /\ trendingCitiesCache = NoCache
  /\ rawFlashes = << >>

NextConcurrent ==
  \/ \E s \in AllSlots : PollStart(s)
  \/ \E s \in AllSlots : LookupSigner(s)
  \/ \E s \in AllSlots : FetchNeynarUserDetails(s)
  \/ \E s \in AllSlots : FetchAllFlashesForPlayer(s)
  \/ \E s \in AllSlots : StoreUserDetails(s)
  \/ \E s \in AllSlots : StorePlayerFlashes(s)
  \/ \E s \in AllSlots : GetFinalizedUserFromDb(s)

SpecConcurrent == InitConcurrent /\ [][NextConcurrent]_vars

(***************************************************************************)
(* The specification of interrupted signups: the process may stop between  *)
(* the users upsert and the flashes upsert of a finalize, and the client   *)
(* polls again; the player has two pages of flashes                        *)
(***************************************************************************)
\* the process stops after _storeUserDetails and before _storePlayerFlashes;
\* the request is lost, and what it was doing is remembered for comparison
Crash(s) ==
  /\ s \in active
  /\ world.history
  /\ req[s].op = "poll"
  /\ req[s].pc = "insertMany"
  /\ req' = [req EXCEPT ![s] = Idle]
  /\ prev' = [Snapshot(req[s]) EXCEPT !.crashed = TRUE]
  /\ UNCHANGED <<users, flashes, env, invaders, active, world, leaderboardCache, now,
                 trendingCitiesCache, rawFlashes>>

InitCrash ==
  /\ users = << >>
  /\ flashes = << >>
  /\ env = [SIGNER_ENCRYPTION_KEY |-> "key", API_KEY |-> "secret"]
  /\ invaders = [mode |-> "catalog", size |-> FLASH_FETCH_LIMIT + 1]
  /\ active = {1}
  /\ req = [s \in AllSlots |-> Idle]
  /\ world = [fids |-> {1}, signers |-> {"s1"}, names |-> NameArgs \ {<< >>},
              ivs |-> IVs, dbOk |-> BOOLEAN, remember |-> TRUE, history |-> TRUE]
  /\ prev = NoPrev
  /\ leaderboardCache = NoCache
  /\ now = 0
  /\ trendingCitiesCache = NoCache
  /\ rawFlashes = << >>

NextCrash ==
  \/ \E s \in AllSlots : PollStart(s)
  \/ \E s \in AllSlots : LookupSigner(s)
  \/ \E s \in AllSlots : FetchNeynarUserDetails(s)
  \/ \E s \in AllSlots : FetchAllFlashesForPlayer(s)
  \/ \E s \in AllSlots : StoreUserDetails(s)
  \/ \E s \in AllSlots : StorePlayerFlashes(s)
  \/ \E s \in AllSlots : GetFinalizedUserFromDb(s)
  \/ \E s \in AllSlots : Respond(s)
  \/ \E s \in AllSlots : Crash(s)
  \/ \E s \in AllSlots : SetUserAutoCastStart(s)
  \/ \E s \in AllSlots : UpdateAutocast(s)
  \/ \E s \in AllSlots : ReadUpdatedUser(s)
  \/ \E s \in AllSlots : DeleteUserStart(s)
  \/ \E s \in AllSlots : DeleteUserLookup(s)
  \/ \E s \in AllSlots : DeleteUserWrite(s)

SpecCrash == InitCrash /\ [][NextCrash]_vars

(***************************************************************************)
(* The specification of a shared player: two Farcaster users sign up, one  *)
(* after the other, for player names whose flashes are the same two pages  *)
(***************************************************************************)
InitShared ==
  /\ users = << >>
  /\ flashes = << >>
  /\ env = [SIGNER_ENCRYPTION_KEY |-> "key", API_KEY |-> "secret"]
  /\ invaders = [mode |-> "catalog", size |-> FLASH_FETCH_LIMIT + 1]
  /\ active = {1}
  /\ req = [s \in AllSlots |-> Idle]
  /\ world = [fids |-> {1, 2}, signers |-> {"s1"}, names |-> NameArgs \ {<< >>},
              ivs |-> {1}, dbOk |-> BOOLEAN, remember |-> FALSE, history |-> TRUE]
  /\ prev = NoPrev
  /\ leaderboardCache = NoCache
  /\ now = 0
  /\ trendingCitiesCache = NoCache
  /\ rawFlashes = << >>

NextShared ==
  \/ \E s \in AllSlots : PollStart(s)
  \/ \E s \in AllSlots : LookupSigner(s)
  \/ \E s \in AllSlots : FetchNeynarUserDetails(s)
  \/ \E s \in AllSlots : FetchAllFlashesForPlayer(s)
  \/ \E s \in AllSlots : StoreUserDetails(s)
  \/ \E s \in AllSlots : StorePlayerFlashes(s)
  \/ \E s \in AllSlots : GetFinalizedUserFromDb(s)
  \/ \E s \in AllSlots : Respond(s)
  \/ \E s \in AllSlots : DeleteUserStart(s)
  \/ \E s \in AllSlots : DeleteUserLookup(s)
  \/ \E s \in AllSlots : DeleteUserWrite(s)

SpecShared == InitShared /\ [][NextShared]_vars

(***************************************************************************)
(* The specification of the leaderboard: two Farcaster users sign up, each *)
(* for a player with a flash of their own, and the leaderboard is read     *)
(***************************************************************************)
InitLeaderboard ==
  /\ users = << >>
  /\ flashes = << >>
  /\ env = [SIGNER_ENCRYPTION_KEY |-> "key", API_KEY |-> "secret"]
  /\ invaders = [mode |-> "players", size |-> 1]
  /\ active = {1}
  /\ req = [s \in AllSlots |-> Idle]
  /\ world = [fids |-> {1, 2}, signers |-> {"s1"}, names |-> NameArgs \ {<< >>},
              ivs |-> {1}, dbOk |-> {TRUE}, remember |-> FALSE, history |-> FALSE]
  /\ prev = NoPrev
  /\ leaderboardCache = NoCache
  /\ now = 0
  /\ trendingCitiesCache = NoCache
  /\ rawFlashes = << >>

NextLeaderboard ==
  \/ \E s \in AllSlots : PollStart(s)
  \/ \E s \in AllSlots : LookupSigner(s)
  \/ \E s \in AllSlots : FetchNeynarUserDetails(s)
  \/ \E s \in AllSlots : FetchAllFlashesForPlayer(s)
  \/ \E s \in AllSlots : StoreUserDetails(s)
  \/ \E s \in AllSlots : StorePlayerFlashes(s)
  \/ \E s \in AllSlots : GetFinalizedUserFromDb(s)
  \/ \E s \in AllSlots : Respond(s)
  \/ \E s \in AllSlots : GetLeaderboardStart(s)
  \/ \E s \in AllSlots : GetLeaderboardQuery(s)
  \/ \E s \in AllSlots : GetLeaderboardNames(s)
  \/ Tick

SpecLeaderboard == InitLeaderboard /\ [][NextLeaderboard]_vars

(***************************************************************************)
(* The specification of trending cities: the crawler adds flashes, half    *)
(* days pass, and the trending cities are read                             *)
(***************************************************************************)
InitTrending ==
  /\ users = << >>
  /\ flashes = << >>
  /\ env = [SIGNER_ENCRYPTION_KEY |-> "key", API_KEY |-> "secret"]
  /\ invaders = [mode |-> "free", size |-> 0]
  /\ active = {1}
  /\ req = [s \in AllSlots |-> Idle]
  /\ world = [fids |-> {1}, signers |-> {"s1"}, names |-> NameArgs \ {<< >>},
              ivs |-> {1}, dbOk |-> BOOLEAN, remember |-> FALSE, history |-> FALSE]
  /\ prev = NoPrev
  /\ leaderboardCache = NoCache
  /\ now = 0
  /\ trendingCitiesCache = NoCache
  /\ rawFlashes = << >>

NextTrending ==
  \/ \E s \in AllSlots : GetTrendingCitiesStart(s)
  \/ \E s \in AllSlots : GetTrendingCitiesQuery(s)
  \/ \E s \in AllSlots : Respond(s)
  \/ FlashArrives
  \/ TickHalfDay

SpecTrending == InitTrending /\ [][NextTrending]_vars

(***************************************************************************)
(* The specification of long imports: one player signs up against an       *)
(* activity service that ends the list on its second page, or serves more  *)
(* than MAX_FLASHES_TO_INSERT flashes and then ends the list, or throws,   *)
(* or never ends it.  Every awaited getFlashes is answered.                *)
(***************************************************************************)
\* pages enough for a fetch to follow more than MAX_FLASHES_TO_INSERT flashes
LongImport == MAX_FLASHES_TO_INSERT + 2 * FLASH_FETCH_LIMIT

InitPaging ==
  /\ users = << >>
  /\ flashes = << >>
  /\ env = [SIGNER_ENCRYPTION_KEY |-> "key", API_KEY |-> "secret"]
  /\ invaders \in {[mode |-> "catalog", size |-> FLASH_FETCH_LIMIT + 1],
                   [mode |-> "catalog", size |-> LongImport + 1],
                   [mode |-> "breaks", size |-> LongImport],
                   [mode |-> "endless", size |-> 0]}
  /\ active = {1}
  /\ req = [s \in AllSlots |-> Idle]
  /\ world = [fids |-> {1}, signers |-> {"s1"}, names |-> {<<"a">>},
              ivs |-> {1}, dbOk |-> {TRUE}, remember |-> FALSE,
              history |-> FALSE]
  /\ prev = NoPrev
  /\ leaderboardCache = NoCache
  /\ now = 0
  /\ trendingCitiesCache = NoCache
  /\ rawFlashes = << >>

NextPaging ==
  \/ \E s \in AllSlots : PollStart(s)
  \/ \E s \in AllSlots : LookupSigner(s)
  \/ \E s \in AllSlots : FetchNeynarUserDetails(s)
  \/ \E s \in AllSlots : FetchAllFlashesForPlayer(s)
  \/ \E s \in AllSlots : StoreUserDetails(s)
  \/ \E s \in AllSlots : StorePlayerFlashes(s)
  \/ \E s \in AllSlots : GetFinalizedUserFromDb(s)
  \/ \E s \in AllSlots : Respond(s)

SpecPaging ==
  /\ InitPaging
  /\ [][NextPaging]_vars
  /\ \A s \in AllSlots : WF_vars(FetchAllFlashesForPlayer(s))

(***************************************************************************)
(* The specification of signup against removal: pollSignupStatus and       *)
(* deleteUser requests for the same Farcaster user are served              *)
(* concurrently, their awaits interleaved, again and again                 *)
(***************************************************************************)
InitRace ==
  /\ users = << >>
  /\ flashes = << >>
  /\ env = [SIGNER_ENCRYPTION_KEY |-> "key", API_KEY |-> "secret"]
  /\ invaders = [mode |-> "catalog", size |-> 1]
  /\ active = {1, 2}
  /\ req = [s \in AllSlots |-> Idle]
  /\ world = [fids |-> {1}, signers |-> {"s1"}, names |-> {<<"a">>},
              ivs |-> {1}, dbOk |-> BOOLEAN, remember |-> FALSE,
              history |-> FALSE]
  /\ prev = NoPrev
  /\ leaderboardCache = NoCache
  /\ now = 0
  /\ trendingCitiesCache = NoCache
  /\ rawFlashes = << >>

NextRace ==
  \/ \E s \in AllSlots : PollStart(s)
  \/ \E s \in AllSlots : LookupSigner(s)
  \/ \E s \in AllSlots : FetchNeynarUserDetails(s)
  \/ \E s \in AllSlots : FetchAllFlashesForPlayer(s)
  \/ \E s \in AllSlots : StoreUserDetails(s)
  \/ \E s \in AllSlots : StorePlayerFlashes(s)
  \/ \E s \in AllSlots : GetFinalizedUserFromDb(s)
  \/ \E s \in AllSlots : DeleteUserStart(s)
  \/ \E s \in AllSlots : DeleteUserLookup(s)
  \/ \E s \in AllSlots : DeleteUserWrite(s)
  \/ \E s \in AllSlots : Respond(s)

SpecRace == InitRace /\ [][NextRace]_vars

(***************************************************************************)
(* Properties of finalize                                                  *)
(***************************************************************************)
\* slot s has completed a finalize
Finalized(s) ==
  /\ req[s].op = "poll"
  /\ req[s].pc = "done"
  /\ req[s].finalizeCalls = 1

\* slot s has completed a finalize whose arguments and whose services' answers
\* were those of the previous successful finalize, the store having executed
\* every statement of both
Repeated(s) ==
  /\ Finalized(s)
  /\ prev.set
  /\ req[s].fid = prev.fid
  /\ req[s].signer_uuid = prev.signer_uuid
  /\ req[s].username = prev.username
  /\ req[s].profile = "user"
  /\ req[s].pfpUrl = prev.pfpUrl
  /\ req[s].farcasterUsername = prev.farcasterUsername
  /\ req[s].fetched = prev.fetched
  /\ req[s].playerFlashes = prev.playerFlashes
  /\ ~req[s].dbFailed
  /\ ~prev.dbFailed

\* every imported id that finalize hands to the store has its record
Imported(s) ==
  Len(req[s].playerFlashes) <= MAX_FLASHES_TO_INSERT =>
    \A i \in DOMAIN req[s].playerFlashes : req[s].playerFlashes[i] \in DOMAIN flashes

\* C1 as stated: a repeated finalize succeeds, leaves the user's row with
\* identical field values, the encrypted signer included, and the store holds
\* one record per imported flash id
C1_IdenticalRow ==
  \A s \in AllSlots :
    Repeated(s) =>
      /\ req[s].outcome = "ok"
      /\ users[req[s].fid] = prev.row
      /\ Imported(s)

\* C1, amended: a repeated finalize succeeds and leaves the user's row with the
\* same fid, username, auto_cast and deleted; the stored signer is a fresh
\* ciphertext that decrypts to the same signer; the store holds one record per
\* imported flash id (the table is keyed by flash_id)
C1_SameUserSameSecret ==
  \A s \in AllSlots :
    Repeated(s) =>
      /\ req[s].outcome = "ok"
      /\ users[req[s].fid].fid = prev.row.fid
      /\ users[req[s].fid].username = prev.row.username
      /\ users[req[s].fid].auto_cast = prev.row.auto_cast
      /\ users[req[s].fid].deleted = prev.row.deleted
      /\ decrypt(users[req[s].fid].signer_uuid, env.SIGNER_ENCRYPTION_KEY) = req[s].signer_uuid
      /\ decrypt(prev.row.signer_uuid, env.SIGNER_ENCRYPTION_KEY) = req[s].signer_uuid
      /\ Imported(s)

\* a repeated finalize with a non-empty import completed and stored another ciphertext
C1_Witness ==
  \E s \in AllSlots :
    /\ Repeated(s)
    /\ req[s].outcome = "ok"
    /\ Len(req[s].playerFlashes) > 0
    /\ users[req[s].fid].signer_uuid # prev.row.signer_uuid

\* C2 as stated: the auto-publish flag of an existing user changes only by a
\* setUserAutoCast request, never by finalize
C2_FlagChangedOnlyBySetter ==
  [][\A fid \in DOMAIN users :
       users'[fid].auto_cast # users[fid].auto_cast =>
         \E s \in AllSlots : req[s].op = "setUserAutoCast" /\ req[s].pc = "updateAutocast"]_vars

\* C3 as stated: a record whose cast_hash is set keeps that cast_hash
C3_CastHashKept ==
  [][\A id \in DOMAIN flashes :
       flashes[id].cast_hash # NULL => flashes'[id].cast_hash = flashes[id].cast_hash]_vars

\* C4 as stated: when the profile lookup throws or finds no profile and the
\* store works, finalize succeeds, the user is stored and the imported records
\* carry the player name with an empty avatar
C4_ProfileBestEffort ==
  \A s \in AllSlots :
    (Finalized(s) /\ req[s].profile \in {"throw", "nouser"} /\ ~req[s].dbFailed) =>
      /\ req[s].outcome = "ok"
      /\ HasUser(users, req[s].fid)
      /\ \A i \in DOMAIN req[s].playerFlashes :
           /\ req[s].playerFlashes[i] \in DOMAIN flashes
           /\ flashes[req[s].playerFlashes[i]].user_username = req[s].username
           /\ flashes[req[s].playerFlashes[i]].user_pfp_url = ""

\* C5: a finalize that collected exactly MAX_FLASHES_TO_INSERT flashes succeeds
\* with a record of the user's for every one of them; a finalize that collected
\* one more succeeds, stores the user and writes no flash record at all
C5_Ceiling ==
  [][\A s \in AllSlots :
       /\ (/\ req[s].op = "poll"
           /\ req[s].pc # "done"
           /\ req'[s].pc = "done"
           /\ req'[s].finalizeCalls = 1
           /\ req'[s].fetched = "ok"
           /\ ~req'[s].dbFailed) =>
            /\ Len(req'[s].playerFlashes) = MAX_FLASHES_TO_INSERT =>
                 /\ req'[s].outcome = "ok"
                 /\ \A i \in DOMAIN req'[s].playerFlashes :
                      /\ req'[s].playerFlashes[i] \in DOMAIN flashes'
                      /\ flashes'[req'[s].playerFlashes[i]].user_fid = req'[s].fid
            /\ Len(req'[s].playerFlashes) > MAX_FLASHES_TO_INSERT =>
                 /\ req'[s].outcome = "ok"
                 /\ HasUser(users', req'[s].fid)
                 /\ ~users'[req'[s].fid].deleted
       /\ (req[s].op = "poll" /\ Len(req[s].playerFlashes) > MAX_FLASHES_TO_INSERT) =>
            flashes' = flashes]_vars

\* a finalize of one flash more than the ceiling succeeded while the store
\* holds the records an earlier finalize wrote at the ceiling
C5_Witness ==
  \E s \in AllSlots :
    /\ Finalized(s)
    /\ req[s].outcome = "ok"
    /\ Len(req[s].playerFlashes) = MAX_FLASHES_TO_INSERT + 1
    /\ Cardinality(DOMAIN flashes) = MAX_FLASHES_TO_INSERT

(***************************************************************************)
(* Properties of pollSignupStatus                                          *)
(***************************************************************************)
\* slot s receives lookupSigner's answer in this step
Answered(s) ==
  /\ req[s].op = "poll"
  /\ req[s].pc = "lookupSigner"
  /\ req'[s].lookup.kind # "none"

\* C6: a signer reported pending_approval is answered PENDING_APPROVAL and one
\* reported revoked is answered REVOKED, finalize is not invoked, and neither
\* step of the request changes the stores
C6_PendingAndRevoked ==
  [][\A s \in AllSlots :
       /\ (Answered(s) /\ req'[s].lookup.kind = "ok"
             /\ req'[s].lookup.status \in {S_pending_approval, S_revoked}) =>
            /\ req'[s].pc = "done"
            /\ req'[s].resp.kind = "return"
            /\ req'[s].resp.status =
                 IF req'[s].lookup.status = S_pending_approval
                   THEN Status("PENDING_APPROVAL", << >>)
                   ELSE Status("REVOKED", << >>)
            /\ req'[s].finalizeCalls = 0
            /\ users' = users
            /\ flashes' = flashes
       /\ (req[s].op = "idle" /\ req'[s].op = "poll") =>
            (users' = users /\ flashes' = flashes)]_vars

\* a revoked signer was answered REVOKED while a user is stored
C6_Witness ==
  \E s \in AllSlots :
    /\ req[s].op = "poll"
    /\ req[s].pc = "done"
    /\ req[s].lookup.status = S_revoked
    /\ req[s].resp.status = Status("REVOKED", << >>)
    /\ users # << >>

\* the upper-case form the code must produce for the statuses of the model
UpperOf(status) ==
  IF status = S_expired THEN <<"E", "X", "P", "I", "R", "E", "D">>
  ELSE IF status = S_mixed THEN <<"N", "E", "W", "_", "1">>
  ELSE << >>

\* an answer that is neither a finalizable approval nor pending nor revoked
OtherStatus(s) ==
  /\ Answered(s)
  /\ req'[s].lookup.kind = "ok"
  /\ req'[s].lookup.status \notin {S_approved, S_pending_approval, S_revoked}

\* C7 as stated: any other status is answered UNKNOWN_<STATUS IN UPPER CASE>
C7_UnknownPrefix ==
  [][\A s \in AllSlots :
       OtherStatus(s) =>
         /\ req'[s].pc = "done"
         /\ req'[s].resp.kind = "return"
         /\ req'[s].resp.status = Status("UNKNOWN_", UpperOf(req'[s].lookup.status))
         /\ req'[s].finalizeCalls = 0
         /\ users' = users
         /\ flashes' = flashes]_vars

\* C7, amended: any other status is answered NEYNAR_STATUS_<STATUS IN UPPER
\* CASE>, finalize is not invoked and the stores are unchanged
C7_NeynarStatusPrefix ==
  [][\A s \in AllSlots :
       OtherStatus(s) =>
         /\ req'[s].pc = "done"
         /\ req'[s].resp.kind = "return"
         /\ req'[s].resp.status = Status("NEYNAR_STATUS_", UpperOf(req'[s].lookup.status))
         /\ req'[s].finalizeCalls = 0
         /\ users' = users
         /\ flashes' = flashes]_vars

\* a mixed-case status was answered in upper case
C7_Witness ==
  \E s \in AllSlots :
    /\ req[s].op = "poll"
    /\ req[s].pc = "done"
    /\ req[s].lookup.status = S_mixed
    /\ req[s].resp.status.suf = <<"N", "E", "W", "_", "1">>

\* slot s holds the answer of a pollSignupStatus request
Polled(s) == req[s].op = "poll" /\ req[s].pc = "done"

PollStatuses ==
  {"APPROVED_FINALIZED", "ERROR_FINALIZATION", "PENDING_APPROVAL", "REVOKED",
   "NEYNAR_STATUS_", "ERROR_NEYNAR_LOOKUP"}

\* C8 as stated: pollSignupStatus never throws; every outcome is a status in
\* the normal return
C8_NeverThrows ==
  \A s \in AllSlots :
    Polled(s) => (req[s].resp.kind = "return" /\ req[s].resp.status.lit \in PollStatuses)

\* C8, amended: pollSignupStatus throws BAD_USER_INPUT, before any lookup, when
\* signer_uuid or username is empty; with both present it never throws and every
\* outcome, failures included, is a status in the normal return
C8_ThrowsOnlyBadInput ==
  \A s \in AllSlots :
    Polled(s) =>
      IF req[s].signer_uuid = "" \/ req[s].username = << >>
        THEN /\ req[s].resp.kind = "throw"
             /\ req[s].resp.code = "BAD_USER_INPUT"
             /\ req[s].lookup.kind = "none"
             /\ req[s].finalizeCalls = 0
        ELSE /\ req[s].resp.kind = "return"
             /\ req[s].resp.status.lit \in PollStatuses

\* a failed finalize was reported as a status in the normal return
C8_Witness ==
  \E s \in AllSlots :
    /\ Polled(s)
    /\ req[s].outcome = "fail"
    /\ req[s].resp.kind = "return"
    /\ req[s].resp.status.lit = "ERROR_FINALIZATION"

\* slot s sees lookupSigner throw in this step
LookupThrew(s) == Answered(s) /\ req'[s].lookup.kind = "throw"

\* C9 as stated: a lookup that throws is answered ERROR_LOOKUP with the
\* upstream error's message, without finalize and without a write
C9_ErrorLookup ==
  [][\A s \in AllSlots :
       LookupThrew(s) =>
         /\ req'[s].pc = "done"
         /\ req'[s].resp.kind = "return"
         /\ req'[s].resp.status = Status("ERROR_LOOKUP", << >>)
         /\ req'[s].resp.message = req'[s].lookup.error.message
         /\ req'[s].finalizeCalls = 0
         /\ users' = users
         /\ flashes' = flashes]_vars

\* C9, amended: a lookup that throws is answered ERROR_NEYNAR_LOOKUP with the
\* message of the thrown Error, or with the default message when the thrown
\* value is no Error, without finalize and without a write
C9_ErrorNeynarLookup ==
  [][\A s \in AllSlots :
       LookupThrew(s) =>
         /\ req'[s].pc = "done"
         /\ req'[s].resp.kind = "return"
         /\ req'[s].resp.status = Status("ERROR_NEYNAR_LOOKUP", << >>)
         /\ req'[s].lookup.error = Error(Msg("upstream unavailable")) =>
              req'[s].resp.message = Msg("upstream unavailable")
         /\ req'[s].lookup.error = NonError(Msg("boom")) =>
              req'[s].resp.message = Msg("Failed to lookup signer on Neynar.")
         /\ req'[s].lookup.error \in UpstreamErrors
         /\ req'[s].finalizeCalls = 0
         /\ users' = users
         /\ flashes' = flashes]_vars

\* a thrown Error's message was passed on while a user is stored
C9_Witness ==
  \E s \in AllSlots :
    /\ Polled(s)
    /\ req[s].lookup.kind = "throw"
    /\ req[s].lookup.error.isError
    /\ req[s].resp.message = Msg("upstream unavailable")
    /\ users # << >>

\* slot s was answered approved with a fid
Approved(s) ==
  /\ req[s].op = "poll"
  /\ req[s].lookup.kind = "ok"
  /\ req[s].lookup.status = S_approved
  /\ req[s].lookup.fid # NoFid

\* C10: an approved signer with a fid makes pollSignupStatus invoke finalize
\* exactly once, whatever is stored; a successful finalize is answered
\* APPROVED_FINALIZED with the stored user, a failed one ERROR_FINALIZATION
\* with the fid and the failure's message
C10_ApprovedFinalizes ==
  \A s \in AllSlots :
    Approved(s) =>
      /\ req[s].finalizeCalls = 1
      /\ req[s].fid = req[s].lookup.fid
      /\ req[s].pc = "done" =>
           /\ req[s].resp.kind = "return"
           /\ req[s].outcome \in {"ok", "fail"}
           /\ req[s].outcome = "ok" =>
                /\ req[s].resp.status = Status("APPROVED_FINALIZED", << >>)
                /\ req[s].resp.fid = req[s].lookup.fid
                /\ req[s].resp.user =
                     [fid |-> req[s].lookup.fid,
                      username |-> users[req[s].lookup.fid].username,
                      auto_cast |-> users[req[s].lookup.fid].auto_cast]
           /\ req[s].outcome = "fail" =>
                /\ req[s].resp.status = Status("ERROR_FINALIZATION", << >>)
                /\ req[s].resp.fid = req[s].lookup.fid
                /\ req[s].resp.user = NullUser
                /\ req[s].resp.message = req[s].failure.message

\* finalize ran again, and failed, for a user an earlier poll had finalized
C10_Witness ==
  \E s \in AllSlots :
    /\ Approved(s)
    /\ req[s].pc = "done"
    /\ req[s].outcome = "fail"
    /\ HasUser(users, req[s].lookup.fid)
    /\ req[s].finalizeCalls = 1

(***************************************************************************)
(* Properties of deletion and re-linking                                   *)
(***************************************************************************)
\* slot s has completed a successful finalize for a user it found soft-deleted
Relinked(s) ==
  /\ Finalized(s)
  /\ req[s].outcome = "ok"
  /\ req[s].before.user

\* C11: a successful finalize for a soft-deleted user leaves the user not
\* deleted and returned by the users query, and every record the finalize
\* wrote not deleted
C11_RelinkClearsDeleted ==
  \A s \in AllSlots :
    Relinked(s) =>
      /\ ~users[req[s].fid].deleted
      /\ usersQuery(users, req[s].fid) # {}
      /\ (~req[s].dbFailed /\ Len(req[s].playerFlashes) <= MAX_FLASHES_TO_INSERT) =>
           \A i \in DOMAIN req[s].playerFlashes :
             /\ req[s].playerFlashes[i] \in DOMAIN flashes
             /\ ~flashes[req[s].playerFlashes[i]].deleted

\* a re-link imported a record that deleteUser had soft-deleted
C11_Witness ==
  \E s \in AllSlots :
    /\ Relinked(s)
    /\ \E i \in DOMAIN req[s].playerFlashes :
         /\ req[s].playerFlashes[i] \in req[s].before.flashes
         /\ ~flashes[req[s].playerFlashes[i]].deleted

(***************************************************************************)
(* Properties of initiateSignup                                            *)
(***************************************************************************)
\* a name that is empty or holds nothing but white space
Blank(username) == \A i \in DOMAIN username : username[i] \in {" ", "\t", "\n"}

\* C12: initiateSignup with an empty or all-white-space name ends by throwing
\* an error that says the username is required, without any call to
\* getSignedKey; no step of initiateSignup writes to the stores
C12_BlankNameRejected ==
  [][\A s \in AllSlots :
       (req'[s] # req[s] /\ req'[s].op = "initiateSignup") =>
         /\ users' = users
         /\ flashes' = flashes
         /\ Blank(req'[s].username) =>
              /\ req'[s].pc = "done"
              /\ req'[s].keyCalls = 0
              /\ req'[s].resp.kind = "throw"
              /\ req'[s].resp.message =
                   IF req'[s].username = << >>
                     THEN Msg("Username is required to initiate signup.")
                     ELSE Msg("Username is required to initiate signer creation.")
              /\ req'[s].username = << >> => req'[s].resp.code = "BAD_USER_INPUT"]_vars

\* a name of white space only was rejected while a user is stored
C12_Witness ==
  \E s \in AllSlots :
    /\ req[s].op = "initiateSignup"
    /\ req[s].pc = "done"
    /\ req[s].username = <<" ", "\t", " ">>
    /\ req[s].resp.kind = "throw"
    /\ users # << >>

(***************************************************************************)
(* Properties of the import                                                *)
(***************************************************************************)
\* the pages of the first k calls, one after the other
RECURSIVE Concat(_, _)
Concat(calls, k) == IF k = 0 THEN << >> ELSE Concat(calls, k - 1) \o calls[k].items

\* the filter the code must send for the player names of the model
FilterOf(username) ==
  IF username = <<"b", ".">> THEN <<"b", "\\", ".">> ELSE username

UserRowOf(s, fid) ==
  /\ req[s].op = "poll"
  /\ req[s].fid = fid
  /\ \E iv \in IVs :
       users[fid] = [fid |-> fid, username |-> req[s].username,
                     signer_uuid |-> encrypt(req[s].signer_uuid, "key", iv),
                     auto_cast |-> TRUE, deleted |-> FALSE]

\* the flashes row is, field for field, what call s stores
FlashRowOf(s, id) ==
  /\ req[s].op = "poll"
  /\ id \in Range(req[s].playerFlashes)
  /\ flashes[id] = [flash_id |-> id, user_fid |-> req[s].fid,
                    user_username |-> req[s].farcasterUsername,
                    user_pfp_url |-> req[s].pfpUrl, cast_hash |-> NULL,
                    deleted |-> FALSE]

\* C14: with two finalize calls for the same fid interleaved in any way, every
\* users row holds the fields of one of the two calls and every flashes row
\* holds the fields of one of the two calls
C14_RowsFromOneCall ==
  /\ \A fid \in DOMAIN users : \E s \in AllSlots : UserRowOf(s, fid)
  /\ \A id \in DOMAIN flashes : \E s \in AllSlots : FlashRowOf(s, id)

\* both calls, with different names, signers and profiles, have written the
\* same users row and the same flashes row, and both have finished
C14_Witness ==
  /\ \A s \in AllSlots : Finalized(s) /\ req[s].outcome = "ok" /\ req[s].fid = 1
  /\ req[1].username # req[2].username
  /\ req[1].signer_uuid # req[2].signer_uuid
  /\ req[1].pfpUrl # req[2].pfpUrl
  /\ \E id \in DOMAIN flashes :
       id \in Range(req[1].playerFlashes) \cap Range(req[2].playerFlashes)
  /\ UserRowOf(1, 1)
  /\ \E id \in DOMAIN flashes : FlashRowOf(2, id)

(***************************************************************************)
(* Properties of an interrupted finalize                                   *)
(***************************************************************************)
\* slot s has completed a finalize whose arguments and whose services' answers
\* were those of the finalize that was interrupted before it, nothing else
\* having written to the store in between and the store having executed every
\* statement
Retried(s) ==
  /\ Finalized(s)
  /\ prev.set
  /\ prev.crashed
  /\ req[s].fid = prev.fid
  /\ req[s].signer_uuid = prev.signer_uuid
  /\ req[s].username = prev.username
  /\ req[s].profile = "user"
  /\ req[s].pfpUrl = prev.pfpUrl
  /\ req[s].farcasterUsername = prev.farcasterUsername
  /\ req[s].fetched = prev.fetched
  /\ req[s].playerFlashes = prev.playerFlashes
  /\ ~req[s].dbFailed

\* the flashes table one uninterrupted finalize leaves, begun where the
\* interrupted one began
UninterruptedFlashes(s) ==
  IF AfterUserStored(req[s]) = "insertMany"
    THEN insertMany(prev.store.flashes, dbFlashesToStore(req[s]))
    ELSE prev.store.flashes

\* C15: a finalize that repeats one interrupted between the users upsert and
\* the flashes upsert succeeds, and leaves the users and the flashes tables as
\* one uninterrupted finalize, begun where the interrupted one began and
\* drawing the IV the repeat drew, leaves them
C15_RetryAsUninterrupted ==
  \A s \in AllSlots :
    Retried(s) =>
      /\ req[s].outcome = "ok"
      /\ \E iv \in IVs : users = insert(prev.store.users, userToStore(req[s], iv)).tbl
      /\ flashes = UninterruptedFlashes(s)

\* a repeat of an interrupted finalize that found the user and a flash
\* soft-deleted, and drew another IV than the interrupted one
C15_Witness ==
  \E s \in AllSlots :
    /\ Retried(s)
    /\ req[s].outcome = "ok"
    /\ prev.fid \in DOMAIN prev.store.users
    /\ prev.store.users[prev.fid].deleted
    /\ \E id \in DOMAIN prev.store.flashes :
         prev.store.flashes[id].deleted /\ ~flashes[id].deleted
    /\ users[prev.fid].signer_uuid # prev.row.signer_uuid

(***************************************************************************)
(* Properties of deleteUser                                                *)
(***************************************************************************)
\* slot s has answered an authorized deleteUser for a user it found
DeleteAnswered(s) ==
  /\ req[s].op = "deleteUser"
  /\ req[s].pc = "done"
  /\ req[s].resp.kind = "return"
  /\ req[s].resp.message # Msg("User not found")
  /\ req[s].fid \in DOMAIN users

\* the soft-delete flags are those the call found
DeleteChangedNothing(s) ==
  /\ users[req[s].fid].deleted = req[s].before.user
  /\ {id \in DOMAIN flashes : flashes[id].deleted} = req[s].before.flashes

\* C16: an authorized deleteUser for an existing user never ends with the user
\* soft-deleted while a flash the user owns is not, and never reports failure
\* after it changed the store
C16_DeleteAllOrNothing ==
  \A s \in AllSlots :
    DeleteAnswered(s) =>
      /\ users[req[s].fid].deleted =>
           \A id \in DOMAIN flashes :
             flashes[id].user_fid = req[s].fid => flashes[id].deleted
      /\ ~req[s].resp.success => DeleteChangedNothing(s)

\* C17: no step of finalize, setUserAutoCast or deleteUser removes a row of the
\* users table: a row that exists exists in every later state
C17_NeverHardDeleted ==
  [][\A fid \in DOMAIN users : fid \in DOMAIN users']_vars

\* a deleteUser has succeeded and the row is still there, marked deleted
C17_Witness ==
  \E s \in AllSlots :
    /\ DeleteAnswered(s)
    /\ req[s].resp.success
    /\ users[req[s].fid].deleted

(***************************************************************************)
(* Properties of a flash claimed by two users                              *)
(***************************************************************************)
\* slot s has completed a finalize whose bulk upsert the store executed
BulkStored(s) ==
  /\ Finalized(s)
  /\ AfterUserStored(req[s]) = "insertMany"
  /\ ~req[s].dbFailed

\* C18: the flashes table holds one row per flash_id, and when a finalize has
\* stored its flashes each of them is one row owned by that finalize's fid,
\* with its Farcaster username and pfp and not deleted, whoever owned it before
C18_OneRowLastImporter ==
  /\ \A id \in DOMAIN flashes : flashes[id].flash_id = id
  /\ \A s \in AllSlots :
       BulkStored(s) =>
         \A id \in Range(req[s].playerFlashes) :
           /\ id \in DOMAIN flashes
           /\ flashes[id].user_fid = req[s].fid
           /\ flashes[id].user_username = req[s].farcasterUsername
           /\ flashes[id].user_pfp_url = req[s].pfpUrl
           /\ ~flashes[id].deleted

\* user 2 has imported a flash that user 1 owned and had deleted, with another
\* profile than the row carried
C18_Witness ==
  \E s \in AllSlots :
    /\ BulkStored(s)
    /\ req[s].fid = 2
    /\ \E id \in Range(req[s].playerFlashes) :
         /\ id \in DOMAIN req[s].before.store.flashes
         /\ req[s].before.store.flashes[id].user_fid = 1
         /\ req[s].before.store.flashes[id].deleted
         /\ req[s].before.store.flashes[id].user_pfp_url # req[s].pfpUrl
         /\ flashes[id].user_fid = 2

(***************************************************************************)
(* Properties of the API key                                               *)
(***************************************************************************)
\* the request in slot r is a mutation whose x-api-key header is absent or is
\* not the configured key
BadKey(r) ==
  /\ r.op \in {"setUserAutoCast", "deleteUser"}
  /\ r.apiKey = NULL \/ r.apiKey # env.API_KEY

\* C19: every step of a setUserAutoCast or deleteUser request whose x-api-key
\* header is absent or differs from API_KEY, configured or not, ends the
\* request with the UNAUTHORIZED error and changes no row
C19_Unauthorized ==
  [][\A s \in AllSlots :
       (BadKey(req'[s]) /\ req'[s] # req[s]) =>
         /\ req'[s].pc = "done"
         /\ req'[s].resp = Thrown("UNAUTHORIZED", Msg("Unauthorized: Invalid API key"))
         /\ users' = users
         /\ flashes' = flashes]_vars

\* a deleteUser carrying a key while none is configured was refused, and the
\* user it named is still not deleted
C19_Witness ==
  \E s \in AllSlots :
    /\ req[s].op = "deleteUser"
    /\ req[s].apiKey = "secret"
    /\ env.API_KEY = NULL
    /\ req[s].resp.kind = "throw"
    /\ req[s].fid \in DOMAIN users
    /\ ~users[req[s].fid].deleted

(***************************************************************************)
(* Properties of getLeaderboard                                            *)
(***************************************************************************)
\* slot s has answered a getLeaderboard
LeaderboardAnswered(s) ==
  /\ req[s].op = "getLeaderboard"
  /\ req[s].pc = "done"
  /\ req[s].resp.kind = "return"

\* the number of eligible users when the answer of slot s was computed
EligibleThen(s) ==
  IF req[s].resp.hit THEN leaderboardCache.eligible ELSE Cardinality(EligibleUsers)

\* C20: every getLeaderboard(limit) answer, from the cache or from a query,
\* holds at most L = min(max(1, limit), 500) entries in descending order of
\* flash_count, and fewer than L only when fewer than L eligible users existed
\* when the answer was computed
C20_LeaderboardLimit ==
  \A s \in AllSlots :
    LeaderboardAnswered(s) =>
      LET data == req[s].resp.data
          L == Min(Max(1, req[s].limit), 500)
      IN /\ Len(data) <= L
         /\ Len(data) >= Min(L, EligibleThen(s))
         /\ \A i, j \in DOMAIN data :
              i < j => data[i].flash_count >= data[j].flash_count

\* the users that are not deleted and have no flash joined to them
UsersWithoutFlashes ==
  {fid \in DOMAIN users : ~users[fid].deleted /\ JoinedFlashes(fid) = {}}

\* C21: a getLeaderboard answered by a query whose limit covers every user that
\* is not deleted holds one entry with flash_count 0 for each such user that
\* has no flash
C21_ZeroFlashUsersListed ==
  \A s \in AllSlots :
    (/\ LeaderboardAnswered(s)
     /\ ~req[s].resp.hit
     /\ req[s].validatedLimit >= Cardinality({fid \in DOMAIN users : ~users[fid].deleted})) =>
      Cardinality({i \in DOMAIN req[s].resp.data : req[s].resp.data[i].flash_count = 0})
        = Cardinality(UsersWithoutFlashes)

(***************************************************************************)
(* Properties of getTrendingCities                                         *)
(***************************************************************************)
\* slot s has answered a getTrendingCities
TrendingAnswered(s) ==
  /\ req[s].op = "getTrendingCities"
  /\ req[s].pc = "done"
  /\ req[s].resp.kind = "return"

\* when the answer was computed, and the rows the table held then: the cache
\* entry is the one the answer was taken from, or the one it has just made
ComputedAt == trendingCitiesCache.timestamp
SeenThen == trendingCitiesCache.seen

\* C22: every getTrendingCities(excludeParis, hours) answer, from the cache or
\* from a query, holds no Paris entry when excludeParis is true, and counts for
\* each city the flashes of the `hours` hours of that call before the answer
\* was computed
C22_TrendingOwnArguments ==
  \A s \in AllSlots :
    TrendingAnswered(s) =>
      \A i \in DOMAIN req[s].resp.data :
        LET e == req[s].resp.data[i]
        IN /\ req[s].excludeParis => ~IsParis(e.city)
           /\ e.count = TrendingCount(TrendingSelected(SeenThen,
                                        ComputedAt - req[s].hours * HourMs,
                                        req[s].excludeParis), e.city)

(***************************************************************************)
(* Properties of the store's failures during finalize                      *)
(***************************************************************************)
\* C23: when the users upsert of a finalize fails, the same step ends the
\* finalize with the storage error, no flashes upsert follows, neither table
\* changes, and pollSignupStatus answers ERROR_FINALIZATION for the fid
C23_UserStoreFailureAborts ==
  [][\A s \in AllSlots :
       (/\ req[s].op = "poll"
        /\ req[s].pc = "insertUser"
        /\ req'[s].dbFailed \/ req'[s].pc = "done") =>
         /\ req'[s].pc = "done"
         /\ req'[s].outcome = "fail"
         /\ req'[s].failure.message =
              MsgCause("Database error during user data storage for FID ",
                       req[s].fid, DbError.message)
         /\ req'[s].resp.kind = "return"
         /\ req'[s].resp.status = Status("ERROR_FINALIZATION", << >>)
         /\ req'[s].resp.fid = req[s].fid
         /\ req'[s].resp.message = req'[s].failure.message
         /\ users' = users
         /\ flashes' = flashes]_vars

\* a finalize that had fetched a flash has failed at the users upsert, and the
\* flash has no row
C23_Witness ==
  \E s \in AllSlots :
    /\ Finalized(s)
    /\ req[s].dbFailed
    /\ req[s].failure.message.text = "Database error during user data storage for FID "
    /\ req[s].playerFlashes # << >>
    /\ \A i \in DOMAIN req[s].playerFlashes : req[s].playerFlashes[i] \notin DOMAIN flashes

\* C24: when the flashes upsert of a finalize fails, the finalize goes on to
\* read the user back with the users row in place and neither table changed,
\* and when that read succeeds pollSignupStatus answers APPROVED_FINALIZED
\* with the row read
C24_FlashStoreFailureSwallowed ==
  [][\A s \in AllSlots :
       /\ (/\ req[s].op = "poll"
           /\ req[s].pc = "insertMany"
           /\ req'[s].dbFailed) =>
            /\ req'[s].pc = "getByFid"
            /\ req'[s].outcome = "none"
            /\ HasUser(users', req[s].fid)
            /\ users' = users
            /\ flashes' = flashes
       /\ (/\ req[s].op = "poll"
           /\ req[s].pc = "getByFid"
           /\ req[s].dbFailed
           /\ req'[s].pc = "done") =>
            \/ /\ req'[s].outcome = "ok"
               /\ req'[s].resp.status = Status("APPROVED_FINALIZED", << >>)
               /\ req'[s].resp.fid = req[s].fid
               /\ req'[s].resp.user =
                    [fid |-> req[s].fid, username |-> users[req[s].fid].username,
                     auto_cast |-> users[req[s].fid].auto_cast]
               /\ ~users'[req[s].fid].deleted
            \/ /\ req'[s].outcome = "fail"
               /\ req'[s].failure.message =
                    MsgCause("Error fetching user FID post-finalization: ",
                             req[s].fid, DbError.message)]_vars

\* a finalize whose flashes upsert failed has answered APPROVED_FINALIZED, and
\* a flash it fetched has no row
C24_Witness ==
  \E s \in AllSlots :
    /\ Finalized(s)
    /\ req[s].dbFailed
    /\ req[s].outcome = "ok"
    /\ req[s].resp.status = Status("APPROVED_FINALIZED", << >>)
    /\ HasUser(users, req[s].fid)
    /\ \E i \in DOMAIN req[s].playerFlashes : req[s].playerFlashes[i] \notin DOMAIN flashes

(***************************************************************************)
(* Properties of a failed fetch                                            *)
(***************************************************************************)
\* C25: once a page fetch of a finalize has failed, the finalize holds no
\* flashes, fetches no further page, runs no flashes upsert and changes no
\* flashes row, and unless a statement of the store fails it ends with the
\* users row stored and APPROVED_FINALIZED
C25_FetchErrorDiscardsImport ==
  [][\A s \in AllSlots :
       (req'[s].op = "poll" /\ req'[s].fetched = "error") =>
         /\ req'[s].playerFlashes = << >>
         /\ req'[s].pc \in {"insertUser", "getByFid", "done"}
         /\ req'[s] # req[s] => flashes' = flashes
         /\ (req'[s].pc = "done" /\ ~req'[s].dbFailed) =>
              /\ req'[s].outcome = "ok"
              /\ req'[s].resp.status = Status("APPROVED_FINALIZED", << >>)
              /\ HasUser(users', req'[s].fid)
              /\ ~users'[req'[s].fid].deleted]_vars

\* a finalize whose second page failed after a first page with a flash has
\* answered APPROVED_FINALIZED, and the flash has no row
C25_Witness ==
  \E s \in AllSlots :
    /\ Finalized(s)
    /\ req[s].fetched = "error"
    /\ Len(req[s].calls) = 2
    /\ req[s].calls[1].items # << >>
    /\ req[s].outcome = "ok"
    /\ \A i \in DOMAIN req[s].calls[1].items : req[s].calls[1].items[i] \notin DOMAIN flashes

(***************************************************************************)
(* Properties of a missing SIGNER_ENCRYPTION_KEY                           *)
(***************************************************************************)
NoKeyMessage == Msg("SIGNER_ENCRYPTION_KEY is not set, cannot finalize signup.")

\* C26: while SIGNER_ENCRYPTION_KEY is not set, every pollSignupStatus whose
\* signer is approved with a fid ends at the key check with
\* ERROR_FINALIZATION and the configuration error's message, and no step of a
\* pollSignupStatus changes a row of either table
C26_MissingKeyFatal ==
  [][\A s \in AllSlots :
       (env.SIGNER_ENCRYPTION_KEY = NULL /\ req'[s].op = "poll" /\ req'[s] # req[s]) =>
         /\ users' = users
         /\ flashes' = flashes
         /\ req'[s].pc \in {"lookupSigner", "done"}
         /\ (req[s].pc = "lookupSigner" /\ req'[s].lookup.kind = "ok"
               /\ req'[s].lookup.status = S_approved /\ req'[s].lookup.fid # NoFid) =>
              /\ req'[s].finalizeCalls = 1
              /\ req'[s].outcome = "fail"
              /\ req'[s].failure = Error(NoKeyMessage)
              /\ req'[s].resp = Returned(Status("ERROR_FINALIZATION", << >>),
                                         req'[s].lookup.fid, NullUser, NoKeyMessage)]_vars

\* a pollSignupStatus for an approved signer has answered ERROR_FINALIZATION
\* because the key is not set, and the tables are empty
C26_Witness ==
  \E s \in AllSlots :
    /\ env.SIGNER_ENCRYPTION_KEY = NULL
    /\ Finalized(s)
    /\ req[s].lookup.status = S_approved
    /\ req[s].resp.status = Status("ERROR_FINALIZATION", << >>)
    /\ req[s].resp.message = NoKeyMessage
    /\ users = << >>
    /\ flashes = << >>

(***************************************************************************)
(* Properties of an approved signer without a fid                          *)
(***************************************************************************)
\* C27: when lookupSigner answers status approved without a fid,
\* pollSignupStatus does not enter finalize, changes no row, and answers with
\* the status NEYNAR_STATUS_APPROVED, no fid and no user
C27_ApprovedWithoutFid ==
  [][\A s \in AllSlots :
       (/\ req[s].op = "poll"
        /\ req[s].pc = "lookupSigner"
        /\ req'[s].lookup.kind = "ok"
        /\ req'[s].lookup.status = S_approved
        /\ req'[s].lookup.fid = NoFid) =>
         /\ req'[s].finalizeCalls = 0
         /\ req'[s].pc = "done"
         /\ req'[s].resp =
              Returned(Status("NEYNAR_STATUS_", <<"A", "P", "P", "R", "O", "V", "E", "D">>),
                       NoFid, NullUser,
                       MsgArg("Signer status from Neynar: ", S_approved))
         /\ users' = users
         /\ flashes' = flashes]_vars

\* a pollSignupStatus has answered NEYNAR_STATUS_APPROVED while a user is stored
C27_Witness ==
  \E s \in AllSlots :
    /\ Polled(s)
    /\ req[s].lookup.kind = "ok"
    /\ req[s].lookup.status = S_approved
    /\ req[s].lookup.fid = NoFid
    /\ req[s].resp.status.lit = "NEYNAR_STATUS_"
    /\ users # << >>

(***************************************************************************)
(* Properties of the paging loop                                           *)
(***************************************************************************)
\* the answer slot s received to its last getFlashes
LastCall(s) == req[s].calls[Len(req[s].calls)]

\* C28: the paging loop of finalize goes round again exactly when the page
\* just received did not throw and carries hasNext = true, however many
\* flashes it has collected; so against a service that ends the list or
\* throws finalize reaches the user's upsert, and against a service that
\* answers hasNext = true every time it never does
C28_PagingUnbounded ==
  /\ [][\A s \in AllSlots :
          (req[s].op = "poll" /\ req[s].pc = "getFlashes" /\ req'[s] # req[s]) =>
            LET page == req'[s].calls[Len(req'[s].calls)]
            IN /\ Len(req'[s].calls) = Len(req[s].calls) + 1
               /\ req'[s].pc = IF ~page.throw /\ page.hasNext THEN "getFlashes"
                                                              ELSE "insertUser"]_vars
  /\ \A s \in AllSlots :
       (req[s].pc = "getFlashes" /\ invaders.mode # "endless")
         ~> (req[s].pc = "insertUser")
  /\ [](\A s \in AllSlots :
          (invaders.mode = "endless" /\ req[s].op = "poll") =>
             /\ req[s].pc \notin {"insertUser", "insertMany", "getByFid"}
             /\ req[s].fetched \in {"none", "more"})

\* against the endless service a finalize holding more than
\* MAX_FLASHES_TO_INSERT flashes has fetched again and is about to fetch more
C28_Witness ==
  \E s \in AllSlots :
    /\ invaders.mode = "endless"
    /\ req[s].op = "poll"
    /\ req[s].pc = "getFlashes"
    /\ Len(req[s].playerFlashes) > MAX_FLASHES_TO_INSERT + FLASH_FETCH_LIMIT
    /\ LastCall(s).offset > MAX_FLASHES_TO_INSERT
    /\ LastCall(s).hasNext

(***************************************************************************)
(* Properties of signup against removal                                    *)
(***************************************************************************)
\* C29: in every reachable state, however finalize and deleteUser requests
\* follow and interleave, the user_fid of every row of flashcastr_flashes has
\* a row in flashcastr_users
C29_FlashOwnerHasRow ==
  \A id \in DOMAIN flashes : HasUser(users, flashes[id].user_fid)

\* a deleteUser has run between the two upserts of a finalize: the flash the
\* finalize wrote is live and its owner's row is there, soft-deleted
C29_Witness ==
  \E id \in DOMAIN flashes :
    /\ ~flashes[id].deleted
    /\ HasUser(users, flashes[id].user_fid)
    /\ users[flashes[id].user_fid].deleted
    /\ \E s \in AllSlots : req[s].op = "poll" /\ req[s].pc = "getByFid"
    /\ \E s \in AllSlots : req[s].op = "deleteUser" /\ req[s].pc = "done"

\* slot s has answered APPROVED_FINALIZED
ApprovedFinalized(s) ==
  /\ Finalized(s)
  /\ req[s].outcome = "ok"
  /\ req[s].resp.status = Status("APPROVED_FINALIZED", << >>)

\* the flashes the finalize of slot s wrote that are live
LiveFlashesOf(s) ==
  {id \in Range(req[s].playerFlashes) :
     /\ ~req[s].dbFailed
     /\ id \in DOMAIN flashes
     /\ flashes[id].user_fid = req[s].fid
     /\ ~flashes[id].deleted}

\* a pollSignupStatus and a deleteUser of the same fid have both completed
RaceOver(p, d) ==
  /\ ApprovedFinalized(p)
  /\ req[d].op = "deleteUser"
  /\ req[d].pc = "done"
  /\ req[d].fid = req[p].fid

\* C30: whenever a pollSignupStatus racing a deleteUser of the same fid answers
\* APPROVED_FINALIZED, the user it returns was read with deleted = false, and
\* once both have completed the user's row is not soft-deleted while flashes
\* that finalize wrote are live
C30_FinalizeVersusDelete ==
  /\ [][\A s \in AllSlots :
          (/\ req[s].op = "poll"
           /\ req[s].pc = "getByFid"
           /\ req'[s].pc = "done"
           /\ req'[s].resp.status = Status("APPROVED_FINALIZED", << >>)) =>
             ~users[req[s].fid].deleted]_vars
  /\ [](\A p, d \in AllSlots :
          RaceOver(p, d) => ~(users[req[p].fid].deleted /\ LiveFlashesOf(p) # {}))

====
